---- MODULE Spec2Model ----
(***************************************************************************)
(* Threshold signing engine of the bridge (TSS_component/rustlib): the     *)
(* sled store, the three DKG rounds, init, the two signing rounds and the  *)
(* aggregation, as the pyo3 host API exposes them.                         *)
(*                                                                         *)
(* Cryptographic values are symbolic.  A DKG polynomial of identity i is   *)
(* named by the number of dkg_round1 calls of i that produced it (its      *)
(* epoch); a group verifying key is the vector of the epochs that were     *)
(* summed into it, with the number of BIP-341 tweaks applied on top; a     *)
(* nonce pair is named by the sign_round1 call that drew it.  Two values   *)
(* are equal exactly when the real ones are (up to hash collisions).       *)
(***************************************************************************)
EXTENDS Integers, Sequences, FiniteSets, TLC

\* ------------------------------------------------------------------ bounds
MaxRestarts == 1      \* dkg_round1 calls that restart an identity's DKG, in all
MaxNonce == 2         \* sign_round1 calls, in all
MaxOverlap == 3       \* sign_round1 calls, in all, of overlapping signing sessions
MaxPairs == 4         \* (id, payload) pairs of a list argument
U64Max == 3           \* the largest value of the (narrow) u64 word of the guests
MaxLeaves == 5        \* transactions of a block whose merkle tree is built
TxU64Max == 1048575   \* the largest value of the u64 word of the transaction builder

\* ------------------------------------------------------- program constants
XOnlyLen == 32        \* x-only verifying key
CompressedLen == 33   \* SEC1 compressed point: prefix byte and x
SigLen == 64          \* BIP-340 signature (R.x, z)
PrefixEven == 2       \* 0x02
PrefixOdd == 3        \* 0x03

Ids == 1 .. 3          \* the identities of the session
Labels == {0} \cup Ids  \* u16 labels the host passes; 0 maps to no identifier
Msgs == {"a1", "b2"}   \* message_hex values the host signs
BadHex == "zz"         \* a message_hex that is not hex

None == << >>
Some(v) == << v >>
IsSome(o) == o # << >>
Get(o) == o[1]

Ok(v) == [ok |-> TRUE, val |-> v, err |-> "Ok"]
Err(e) == [ok |-> FALSE, val |-> [e |-> e], err |-> e]

VARIABLES
    DB,         \* the sled store: DB[kind][id], kind one of the five key prefixes
    params,     \* (total_signers, min_signers) the host uses in this session
    epoch,      \* per identity, dkg_round1 calls made so far (names the polynomial)
    nonceCtr,   \* per identity, sign_round1 calls made so far (names the nonces)
    pkg1,       \* host: the round-1 package last returned to it by each identity
    pkg2,       \* host: the directed round-2 packages last returned by each identity
    pubkp,      \* host: the PublicKeyPackage last returned by dkg_round3 of each identity
    commits,    \* host: the commitments last returned by sign_round1 of each identity
    shares,     \* host: the signature share last returned by sign_round2 of each identity
    ret,        \* the last host call: operation, identity, outcome, returned value
    hist,       \* history: per identity, how many DKG rounds have succeeded in order
    r2Fresh,    \* history: dkg_round2 succeeded after the identity's latest dkg_round1
    uses,       \* history: successful sign_round2 calls on the stored nonces (0, 1, many)
    loaded,     \* history: the nonces the last sign_round2 read from the store
    prog,       \* zkVM: the guest program that runs ("mint", "burn"; "none": no run)
    bundle,     \* zkVM: the BundleInfoStruct the host put on the guest's input
    pc,         \* zkVM: the step of main the guest has reached
    reads,      \* zkVM: sp1_zkvm::io::read calls made by the guest
    local,      \* zkVM: the local values of main computed so far
    committed,  \* zkVM: the byte strings the guest has committed, in order
    trace,      \* zkVM: the steps of main completed so far, in order
    call,       \* a function under evaluation on its own: its name and arguments
    result      \* what that function returned (None until it has returned)

vars == << DB, params, epoch, nonceCtr, pkg1, pkg2, pubkp, commits, shares, ret,
           hist, r2Fresh, uses, loaded, prog, bundle, pc, reads, local, committed, trace,
           call, result >>
pure == << call, result >>
zk == << prog, bundle, pc, reads, local, committed, trace >>
host == << pkg1, pkg2, pubkp, commits, shares >>
ghost == << hist, r2Fresh, uses, loaded >>

Kinds == {"r1", "r2", "keypkg", "pubkeypkg", "nonces"}

\* ---------------------------------------------------------------- store
\* the key built without the identity: every identity reads the first one's record
DbGet_NoSuffix(db, kind, id) == db[kind][1]

\* DB.get(format!("<kind>_{}", id))
DbGet(db, kind, id) == db[kind][id]

\* the key built without the identity: every identity writes the first one's record
DbInsert_NoSuffix(db, kind, id, v) == [db EXCEPT ![kind][1] = Some(v)]

\* DB.insert(format!("<kind>_{}", id), bytes): overwrite
DbInsert(db, kind, id, v) == [db EXCEPT ![kind][id] = Some(v)]

\* ---------------------------------------------------------- identifiers
\* Identifier::try_from(u16): the zero scalar is no identifier
identifier_from_u16_ZeroIsOne(id_u16) == Ok(IF id_u16 = 0 THEN 1 ELSE id_u16)

identifier_from_u16(id_u16) ==
    IF id_u16 = 0 THEN Err("InvalidIdentifierU16") ELSE Ok(id_u16)

\* ------------------------------------------------------------ FROST: DKG
\* dkg::part1: validates (max_signers, min_signers), draws the polynomial
part1(id, max_signers, min_signers, e) ==
    IF min_signers < 2 THEN Err("InvalidMinSigners")
    ELSE IF max_signers < 2 THEN Err("InvalidMaxSigners")
    ELSE IF min_signers > max_signers THEN Err("InvalidMinSigners")
    ELSE Ok([secret |-> [id |-> id, e |-> e, max |-> max_signers, min |-> min_signers],
             package |-> [e |-> e, of |-> id]])

\* A round-1 package carries a proof of knowledge bound to its sender's identifier
ProofOfKnowledgeOk(sender, package) == package.of = sender

\* dkg::part2: one package per other participant, each with a valid proof;
\* a directed share package for every sender in the map
part2(secret1, map) ==
    IF Cardinality(DOMAIN map) # secret1.max - 1 THEN Err("IncorrectNumberOfPackages")
    ELSE IF \E j \in DOMAIN map : ~ProofOfKnowledgeOk(j, map[j])
         THEN Err("InvalidProofOfKnowledge")
    ELSE Ok([secret |-> secret1,
             packages |-> [j \in DOMAIN map |->
                             [e |-> secret1.e, from |-> secret1.id, to |-> j]]])

\* The share f_j(i) of a round-2 package checked against j's round-1 commitment
SecretShareOk(self, j, r1pkg, r2pkg) ==
    /\ r2pkg.from = j
    /\ r2pkg.to = self
    /\ r1pkg.of = j
    /\ r2pkg.e = r1pkg.e

\* the sum taken over the received packages only, the own commitment left out
GroupKey_OmitOwn(secret2, r1_map) ==
    [g |-> [j \in Ids |-> IF j \in DOMAIN r1_map THEN r1_map[j].e ELSE 0], tw |-> 0]

\* The group verifying key: the sum of every participant's commitment
GroupKey(secret2, r1_map) ==
    [g |-> [j \in Ids |-> IF j = secret2.id THEN secret2.e
                          ELSE IF j \in DOMAIN r1_map THEN r1_map[j].e
                          ELSE 0],
     tw |-> 0]

\* dkg::part3: same senders in both maps, every share verified; KeyPackage
\* and PublicKeyPackage
part3(secret2, r1_map, r2_map) ==
    IF Cardinality(DOMAIN r1_map) # secret2.max - 1 THEN Err("IncorrectNumberOfPackages")
    ELSE IF DOMAIN r1_map # DOMAIN r2_map THEN Err("IncorrectPackage")
    ELSE IF \E j \in DOMAIN r1_map : ~SecretShareOk(secret2.id, j, r1_map[j], r2_map[j])
         THEN Err("InvalidSecretShare")
    ELSE LET vk == GroupKey(secret2, r1_map)
             members == DOMAIN r1_map \cup {secret2.id}
         IN Ok([kp |-> [id |-> secret2.id, vk |-> vk, min |-> secret2.min],
                pubkp |-> [vk |-> vk, members |-> members]])

\* ------------------------------------------------------- verifying keys
\* VerifyingKey::serialize(): SEC1 compressed, prefix and x coordinate.  The
\* DKG output is normalised to even Y, a tweaked key may have either parity.
Parity(vk) ==
    IF vk.tw = 0 THEN PrefixEven
    ELSE IF (vk.g[1] + vk.tw) % 2 = 0 THEN PrefixEven ELSE PrefixOdd

SerializeVK(vk) == [prefix |-> << Parity(vk) >>, x |-> vk]

\* length in bytes of a serialized key
ByteLen(bytes) == Len(bytes.prefix) + XOnlyLen

\* lib.rs 181..187: always produce the 32-byte x-only form
StripPrefix(serialized) ==
    IF ByteLen(serialized) = CompressedLen
       /\ (serialized.prefix[1] = PrefixEven \/ serialized.prefix[1] = PrefixOdd)
    THEN Ok([prefix |-> << >>, x |-> serialized.x])
    ELSE IF ByteLen(serialized) = XOnlyLen THEN Ok(serialized)
    ELSE Err("State")

\* --------------------------------------------------------- FROST: signing
\* keys::Tweak::tweak(None): the BIP-341 tweak with an empty merkle root,
\* Q = P + H_TapTweak(P) G, on the verifying key and on the shares
TweakVK(vk) == [vk EXCEPT !.tw = @ + 1]
Tweak(pkg) == [pkg EXCEPT !.vk = TweakVK(@)]

\* round1::commit: fresh nonces and the commitments to them
commit(id, k) == [nonces |-> [of |-> id, k |-> k], commitments |-> [of |-> id, k |-> k]]

\* the commitments a nonce pair carries
CommitmentsOf(nonces) == [of |-> nonces.of, k |-> nonces.k]

\* SigningPackage::new(commitments_map, &message)
SigningPackage(commitments_map, message) == [commitments |-> commitments_map, msg |-> message]

\* a share made whatever commitment the package holds for the signer
sign_AnyCommitment(signing_package, nonces, key_pkg) ==
    IF Cardinality(DOMAIN signing_package.commitments) < key_pkg.min
    THEN Err("IncorrectNumberOfCommitments")
    ELSE IF key_pkg.id \notin DOMAIN signing_package.commitments
    THEN Err("MissingCommitment")
    ELSE Ok([id |-> key_pkg.id, nonces |-> nonces, pkg |-> signing_package,
             key |-> key_pkg.vk, min |-> key_pkg.min])

\* frost round2::sign on a key package
sign(signing_package, nonces, key_pkg) ==
    IF Cardinality(DOMAIN signing_package.commitments) < key_pkg.min
    THEN Err("IncorrectNumberOfCommitments")
    ELSE IF key_pkg.id \notin DOMAIN signing_package.commitments
    THEN Err("MissingCommitment")
    ELSE IF signing_package.commitments[key_pkg.id] # CommitmentsOf(nonces)
    THEN Err("IncorrectCommitment")
    ELSE Ok([id |-> key_pkg.id, nonces |-> nonces, pkg |-> signing_package,
             key |-> key_pkg.vk, min |-> key_pkg.min])

\* the call site hands over a key package that is tweaked already
sign_with_tweak_Twice(signing_package, nonces, key_pkg) ==
    sign(signing_package, nonces, Tweak(Tweak(key_pkg)))

\* round2::sign_with_tweak(.., merkle_root = None): tweaks the key package, then signs
sign_with_tweak(signing_package, nonces, key_pkg) ==
    sign(signing_package, nonces, Tweak(key_pkg))

\* A share is the signer's part of a signature under vk on the package
ShareOk(j, share, signing_package, vk) ==
    /\ share.id = j
    /\ share.pkg = signing_package
    /\ j \in DOMAIN signing_package.commitments
    /\ signing_package.commitments[j] = CommitmentsOf(share.nonces)
    /\ share.key = vk
    /\ Cardinality(DOMAIN signing_package.commitments) >= share.min

\* VerifyingKey::verify(msg, signature): BIP-340 verification under the x-only key
Verify(vk, message, sig) ==
    /\ DOMAIN sig.z = DOMAIN sig.R
    /\ DOMAIN sig.z # {}
    /\ \A j \in DOMAIN sig.z : ShareOk(j, sig.z[j], SigningPackage(sig.R, message), vk)

\* the sum of the shares returned unverified
aggregate_NoVerify(signing_package, sig_map, pubkey) ==
    IF Cardinality(DOMAIN signing_package.commitments) # Cardinality(DOMAIN sig_map)
    THEN Err("UnknownIdentifier")
    ELSE IF \E j \in DOMAIN signing_package.commitments :
                j \notin DOMAIN sig_map \/ j \notin pubkey.members
    THEN Err("UnknownIdentifier")
    ELSE Ok([R |-> signing_package.commitments, z |-> sig_map])

\* frost aggregate on a public key package: the group commitment and the sum
\* of the shares, verified before it is returned (a failed verification ends
\* in the cheater detection's error)
aggregate(signing_package, sig_map, pubkey) ==
    IF Cardinality(DOMAIN signing_package.commitments) # Cardinality(DOMAIN sig_map)
    THEN Err("UnknownIdentifier")
    ELSE IF \E j \in DOMAIN signing_package.commitments :
                j \notin DOMAIN sig_map \/ j \notin pubkey.members
    THEN Err("UnknownIdentifier")
    ELSE LET sig == [R |-> signing_package.commitments, z |-> sig_map] IN
         IF Verify(pubkey.vk, signing_package.msg, sig) THEN Ok(sig)
         ELSE Err("InvalidSignatureShare")

\* aggregation under the untweaked group key
aggregate_with_tweak_Untweaked(signing_package, sig_map, pubkey) ==
    aggregate(signing_package, sig_map, pubkey)

\* aggregate_with_tweak(.., merkle_root = None): tweaks the public key package
aggregate_with_tweak(signing_package, sig_map, pubkey) ==
    aggregate(signing_package, sig_map, Tweak(pubkey))

\* Signature::serialize(): 64 bytes, R.x and z
SerializeSig(sig) == [len |-> SigLen, sig |-> sig]

\* the key package looked up under the first identity, whoever asks
get_key_package_AnyIdentity(db, self_id) == DbGet(db, "keypkg", 1)

\* get_key_package: the KeyPackage stored under keypkg_<id>, if any
get_key_package(db, self_id) == DbGet(db, "keypkg", self_id)

Ret(op, id, status, val) == [op |-> op, id |-> id, status |-> status, val |-> val]

\* the identities of the session: labels 1..total_signers
Active == 1 .. params.total

\* dkg_round1 calls so far that overwrote an r1 record
Restarts == LET F[S \in SUBSET Ids] ==
                  IF S = {} THEN 0
                  ELSE LET i == CHOOSE x \in S : TRUE
                       IN (IF epoch[i] > 1 THEN epoch[i] - 1 ELSE 0) + F[S \ {i}]
            IN F[Ids]

\* sign_round1 calls so far
NoncesDrawn == LET F[S \in SUBSET Ids] ==
                     IF S = {} THEN 0
                     ELSE LET i == CHOOSE x \in S : TRUE IN nonceCtr[i] + F[S \ {i}]
               IN F[Ids]

\* ------------------------------------------------------------ dkg_round1
dkg_round1(self_id) ==
    LET idr == identifier_from_u16(self_id) IN
    IF ~idr.ok
    THEN /\ ret' = Ret("dkg_round1", self_id, idr.err, None)
         /\ UNCHANGED << DB, params, zk, pure, epoch, nonceCtr, host, ghost >>
    ELSE
    LET id == idr.val
        r == part1(id, params.total, params.min, epoch[id] + 1) IN
    IF ~r.ok
    THEN \* .unwrap() on the FROST error
         /\ ret' = Ret("dkg_round1", id, "Panic", None)
         /\ UNCHANGED << DB, params, zk, pure, epoch, nonceCtr, host, ghost >>
    ELSE /\ epoch[id] = 0 \/ Restarts < MaxRestarts
         /\ epoch' = [epoch EXCEPT ![id] = @ + 1]
         /\ DB' = DbInsert(DB, "r1", id, r.val.secret)
         /\ pkg1' = [pkg1 EXCEPT ![id] = Some(r.val.package)]
         /\ ret' = Ret("dkg_round1", id, "Ok", Some(r.val.package))
         /\ hist' = [hist EXCEPT ![id] = IF @ < 1 THEN 1 ELSE @]
         /\ r2Fresh' = [r2Fresh EXCEPT ![id] = FALSE]
         /\ UNCHANGED << params, zk, pure, nonceCtr, pkg2, pubkp, commits, shares, uses, loaded >>

\* ------------------------------------------------- the peers' payloads
\* A list argument is a sequence of pairs [id, payload], the (id_hex,
\* payload_hex) tuples of the host, with payloads the functions have returned.
\* the map that keeps the first payload of an identifier
RECURSIVE MapFromPairs_FirstWins(_)
MapFromPairs_FirstWins(pairs) ==
    IF pairs = << >> THEN << >>
    ELSE LET n == Len(pairs)
             map == MapFromPairs_FirstWins(SubSeq(pairs, 1, n - 1))
         IN [j \in DOMAIN map \cup {pairs[n].id} |->
               IF j \in DOMAIN map THEN map[j] ELSE pairs[n].payload]

\* for (peer_id, hex_pkg) in list { map.insert(peer_ident, pkg); }
\* BTreeMap::insert replaces the value an identifier already has
RECURSIVE MapFromPairs(_)
MapFromPairs(pairs) ==
    IF pairs = << >> THEN << >>
    ELSE LET n == Len(pairs)
             map == MapFromPairs(SubSeq(pairs, 1, n - 1))
         IN [j \in DOMAIN map \cup {pairs[n].id} |->
               IF j = pairs[n].id THEN pairs[n].payload ELSE map[j]]

\* the host lists one pair per identifier of `map`, by ascending identifier
RECURSIVE PairsOf(_)
PairsOf(map) ==
    IF DOMAIN map = {} THEN << >>
    ELSE LET j == CHOOSE x \in DOMAIN map : \A y \in DOMAIN map : x <= y
         IN << [id |-> j, payload |-> map[j]] >>
            \o PairsOf([k \in DOMAIN map \ {j} |-> map[k]])

\* ------------------------------------------------------------ dkg_round2
dkg_round2(self_id, received_pkgs_hex) ==
    LET secret1 == DbGet(DB, "r1", self_id) IN
    IF ~IsSome(secret1)
    THEN /\ ret' = Ret("dkg_round2", self_id, "MissingData", None)
         /\ UNCHANGED << DB, params, zk, pure, epoch, nonceCtr, host, ghost >>
    ELSE
    LET map == MapFromPairs(received_pkgs_hex)
        r == part2(Get(secret1), map) IN
    IF ~r.ok
    THEN /\ ret' = Ret("dkg_round2", self_id, "Frost", None)
         /\ UNCHANGED << DB, params, zk, pure, epoch, nonceCtr, host, ghost >>
    ELSE /\ DB' = DbInsert(DB, "r2", self_id, r.val.secret)
         /\ pkg2' = [pkg2 EXCEPT ![self_id] = Some(r.val.packages)]
         /\ ret' = Ret("dkg_round2", self_id, "Ok", Some(r.val.packages))
         /\ hist' = [hist EXCEPT ![self_id] = IF @ = 1 THEN 2 ELSE @]
         /\ r2Fresh' = [r2Fresh EXCEPT ![self_id] = TRUE]
         /\ UNCHANGED << params, zk, pure, epoch, nonceCtr, pkg1, pubkp, commits, shares, uses, loaded >>

\* ------------------------------------------------------------ dkg_round3
dkg_round3(self_id, r1_pkgs_hex, r2_pkgs_hex) ==
    LET secret2 == DbGet(DB, "r2", self_id) IN
    IF ~IsSome(secret2)
    THEN /\ ret' = Ret("dkg_round3", self_id, "MissingData", None)
         /\ UNCHANGED << DB, params, zk, pure, epoch, nonceCtr, host, ghost >>
    ELSE
    LET r1_map == MapFromPairs(r1_pkgs_hex)
        r2_map == MapFromPairs(r2_pkgs_hex)
        r == part3(Get(secret2), r1_map, r2_map) IN
    IF ~r.ok
    THEN /\ ret' = Ret("dkg_round3", self_id, "Frost", None)
         /\ UNCHANGED << DB, params, zk, pure, epoch, nonceCtr, host, ghost >>
    ELSE
    LET db1 == DbInsert(DB, "keypkg", self_id, r.val.kp)
        db2 == DbInsert(db1, "pubkeypkg", self_id, r.val.pubkp)
        key == StripPrefix(SerializeVK(r.val.pubkp.vk)) IN
    /\ DB' = db2
    /\ IF key.ok
       THEN /\ ret' = Ret("dkg_round3", self_id, "Ok",
                          Some([pubkp |-> r.val.pubkp, verify_key |-> key.val]))
            /\ pubkp' = [pubkp EXCEPT ![self_id] = Some(r.val.pubkp)]
       ELSE /\ ret' = Ret("dkg_round3", self_id, "State", None)
            /\ UNCHANGED pubkp
    /\ hist' = [hist EXCEPT ![self_id] = IF @ = 2 THEN 3 ELSE @]
    /\ UNCHANGED << params, zk, pure, epoch, nonceCtr, pkg1, pkg2, commits, shares, r2Fresh, uses, loaded >>

\* ------------------------------------------------------------------ init
\* readiness decided on the KeyPackage alone
init_KeyPackageOnly(self_id) ==
    LET idr == identifier_from_u16(self_id) IN
    /\ IF ~idr.ok
       THEN ret' = Ret("init", self_id, idr.err, None)
       ELSE LET kp_exists == IsSome(DbGet(DB, "keypkg", idr.val)) IN
            ret' = Ret("init", idr.val, "Ok",
                       Some([ready |-> kp_exists, verify_key |-> None,
                             pubkp |-> DbGet(DB, "pubkeypkg", idr.val), id |-> idr.val]))
    /\ UNCHANGED << DB, params, zk, pure, epoch, nonceCtr, host, ghost >>

init(self_id) ==
    LET idr == identifier_from_u16(self_id) IN
    /\ IF ~idr.ok
       THEN ret' = Ret("init", self_id, idr.err, None)
       ELSE LET kp_exists == IsSome(DbGet(DB, "keypkg", idr.val))
                pubkp_exists == IsSome(DbGet(DB, "pubkeypkg", idr.val)) IN
            IF kp_exists /\ pubkp_exists
            THEN LET p == Get(DbGet(DB, "pubkeypkg", idr.val)) IN
                 ret' = Ret("init", idr.val, "Ok",
                            Some([ready |-> TRUE, verify_key |-> Some(SerializeVK(p.vk)),
                                  pubkp |-> Some(p), id |-> idr.val]))
            ELSE ret' = Ret("init", idr.val, "Ok",
                            Some([ready |-> FALSE, verify_key |-> None,
                                  pubkp |-> None, id |-> idr.val]))
    /\ UNCHANGED << DB, params, zk, pure, epoch, nonceCtr, host, ghost >>

\* ----------------------------------------------------------- sign_round1
sign_round1(self_id) ==
    LET key_pkg == get_key_package(DB, self_id) IN
    IF ~IsSome(key_pkg)
    THEN /\ ret' = Ret("sign_round1", self_id, "MissingData", None)
         /\ UNCHANGED << DB, params, zk, pure, epoch, nonceCtr, host, ghost >>
    ELSE
    LET tweaked_key_pkg == Tweak(Get(key_pkg))
        c == commit(tweaked_key_pkg.id, nonceCtr[self_id] + 1) IN
    /\ nonceCtr' = [nonceCtr EXCEPT ![self_id] = @ + 1]
    /\ DB' = DbInsert(DB, "nonces", self_id, c.nonces)
    /\ commits' = [commits EXCEPT ![self_id] = Some(c.commitments)]
    /\ ret' = Ret("sign_round1", self_id, "Ok", Some(c.commitments))
    /\ uses' = [uses EXCEPT ![self_id] = 0]
    /\ UNCHANGED << params, zk, pure, epoch, pkg1, pkg2, pubkp, shares, hist, r2Fresh, loaded >>

\* ----------------------------------------------------------- sign_round2
sign_round2(self_id, message, commitments) ==
    LET key_pkg == get_key_package(DB, self_id) IN
    IF ~IsSome(key_pkg)
    THEN /\ ret' = Ret("sign_round2", self_id, "MissingData", None)
         /\ loaded' = None
         /\ UNCHANGED << DB, params, zk, pure, epoch, nonceCtr, host, hist, r2Fresh, uses >>
    ELSE
    LET nonces_bytes == DbGet(DB, "nonces", self_id) IN
    IF ~IsSome(nonces_bytes)
    THEN /\ ret' = Ret("sign_round2", self_id, "MissingData", None)
         /\ loaded' = None
         /\ UNCHANGED << DB, params, zk, pure, epoch, nonceCtr, host, hist, r2Fresh, uses >>
    ELSE
    LET nonces == Get(nonces_bytes)
        commitments_map == MapFromPairs(commitments)
        signing_package == SigningPackage(commitments_map, message)
        r == sign_with_tweak(signing_package, nonces, Get(key_pkg)) IN
    /\ loaded' = Some(nonces)
    /\ UNCHANGED DB   \* the nonces record is read, never removed or overwritten
    /\ IF message = BadHex \/ ~r.ok
       THEN \* hex::decode(message_hex).unwrap(), sign_with_tweak(..).unwrap()
            /\ ret' = Ret("sign_round2", self_id, "Panic", None)
            /\ UNCHANGED << shares, uses >>
       ELSE /\ shares' = [shares EXCEPT ![self_id] = Some(r.val)]
            /\ ret' = Ret("sign_round2", self_id, "Ok", Some(r.val))
            /\ uses' = [uses EXCEPT ![self_id] = IF @ < 2 THEN @ + 1 ELSE @]
    /\ UNCHANGED << params, zk, pure, epoch, nonceCtr, pkg1, pkg2, pubkp, commits, hist, r2Fresh >>

\* --------------------------------------------------- aggregate_signature
\* What the call returns on (message, sig_shares, commitments, pubkey)
aggregate_signature_result(message, sig_map, commitments_map, pubkey) ==
    LET signing_package == SigningPackage(commitments_map, message)
        tweaked_pubkey == Tweak(pubkey)
        r == aggregate_with_tweak(signing_package, sig_map, pubkey) IN
    IF message = BadHex \/ ~r.ok
    THEN \* hex::decode(message_hex).unwrap(), aggregate_with_tweak(..).unwrap()
         Ret("aggregate_signature", 0, "Panic",
             Some([cause |-> IF message = BadHex THEN "Hex" ELSE r.err]))
    ELSE LET is_signature_valid == Verify(tweaked_pubkey.vk, message, r.val) IN
         Ret("aggregate_signature", 0, "Ok",
             Some([sig |-> SerializeSig(r.val), valid |-> is_signature_valid,
                   msg |-> message, pubkey |-> pubkey]))

aggregate_signature(message, sig_shares, commitments, pubkey) ==
    /\ ret' = aggregate_signature_result(message, MapFromPairs(sig_shares),
                                         MapFromPairs(commitments), pubkey)
    /\ UNCHANGED << DB, params, zk, pure, epoch, nonceCtr, host, ghost >>

\* ------------------------------------------------ derive_taproot_address
\* Address::p2tr(secp, internal_key, None, hrp): the output key is the internal
\* key under the BIP-341 tweak with an empty merkle root
p2tr(internal_key, hrp) == [hrp |-> hrp, output_key |-> TweakVK(internal_key)]

derive_taproot_address(x_only_hex, network_str) ==
    IF network_str \notin {"mainnet", "testnet"} THEN Err("InvalidNetwork")
    ELSE LET hrp == IF network_str = "mainnet" THEN "bc" ELSE "tb" IN
         IF ByteLen(x_only_hex) = CompressedLen
            /\ (x_only_hex.prefix[1] = PrefixEven \/ x_only_hex.prefix[1] = PrefixOdd)
         THEN Ok(p2tr(x_only_hex.x, hrp))
         ELSE IF ByteLen(x_only_hex) = XOnlyLen THEN Ok(p2tr(x_only_hex.x, hrp))
         ELSE Err("General")

\* ------------------------------------------------------------- the host
\* What the host holds of the identities S, listed for a call: the latest
\* round-1 packages, the latest round-2 packages directed to `to`, the latest
\* signature shares, and the commitments sign_round1 has returned: the latest
\* ones, or for the identities of `stale` those of the call before
LatestPkg1(S) == PairsOf([j \in S |-> Get(pkg1[j])])
LatestPkg2(S, to) == PairsOf([j \in S |-> Get(pkg2[j])[to]])
ReturnedCommits(S, stale) ==
    PairsOf([j \in S |-> IF j \in stale THEN commit(j, nonceCtr[j] - 1).commitments
                         ELSE Get(commits[j])])
LatestShares(S) == PairsOf([j \in S |-> Get(shares[j])])

\* ------------------------------------------------------------------ Init
\* no guest program runs
NoGuest ==
    /\ prog = "none" /\ bundle = << >> /\ pc = "idle" /\ reads = 0
    /\ local = << >> /\ committed = << >> /\ trace = << >>

\* no function is evaluated on its own
NoCall == call = << >> /\ result = << >>

\* The empty store of a fresh deployment; the host fixes (total, threshold)
Init ==
    /\ NoGuest
    /\ NoCall
    /\ DB = [k \in Kinds |-> [i \in Ids |-> None]]
    /\ params \in { [total |-> n, min |-> t] : n \in 2 .. 3, t \in 1 .. 3 }
    /\ epoch = [i \in Ids |-> 0]
    /\ nonceCtr = [i \in Ids |-> 0]
    /\ pkg1 = [i \in Ids |-> None]
    /\ pkg2 = [i \in Ids |-> None]
    /\ pubkp = [i \in Ids |-> None]
    /\ commits = [i \in Ids |-> None]
    /\ shares = [i \in Ids |-> None]
    /\ ret = Ret("start", 0, "Ok", None)
    /\ hist = [i \in Ids |-> 0]
    /\ r2Fresh = [i \in Ids |-> FALSE]
    /\ uses = [i \in Ids |-> 0]
    /\ loaded = None

\* The DKG of the session
Next ==
    \/ \E u \in {0} \cup Active : dkg_round1(u)
    \/ \E i \in Active : \E P \in SUBSET {j \in Ids \ {i} : IsSome(pkg1[j])} : dkg_round2(i, LatestPkg1(P))
    \/ \E i \in Active :
         \E P1 \in SUBSET {j \in Ids \ {i} : IsSome(pkg1[j])} :
           \E P2 \in SUBSET {j \in Ids \ {i} : IsSome(pkg2[j]) /\ i \in DOMAIN Get(pkg2[j])} :
             dkg_round3(i, LatestPkg1(P1), LatestPkg2(P2, i))
    \/ \E u \in {0} \cup Active : init(u)

Spec == Init /\ [][Next]_vars

\* ---------------------------------------------------------- signing phase
\* The records one run of the DKG leaves behind, computed by the DKG's own
\* functions: every identity of the session has run rounds 1 and 2 on the
\* packages of all the others, and the identities of `ready` round 3 as well.
RunSecret1(i, n, t) == part1(i, n, t, 1).val
RunRound2(i, n, t) ==
    part2(RunSecret1(i, n, t).secret,
          [j \in (1 .. n) \ {i} |-> RunSecret1(j, n, t).package]).val
RunRound3(i, n, t) ==
    part3(RunRound2(i, n, t).secret,
          [j \in (1 .. n) \ {i} |-> RunSecret1(j, n, t).package],
          [j \in (1 .. n) \ {i} |-> RunRound2(j, n, t).packages[i]]).val

AfterDkg(n, t, ready) ==
    /\ params = [total |-> n, min |-> t]
    /\ DB = [k \in Kinds |-> [i \in Ids |->
               CASE k = "r1" /\ i <= n -> Some(RunSecret1(i, n, t).secret)
                 [] k = "r2" /\ i <= n -> Some(RunRound2(i, n, t).secret)
                 [] k = "keypkg" /\ i \in ready -> Some(RunRound3(i, n, t).kp)
                 [] k = "pubkeypkg" /\ i \in ready -> Some(RunRound3(i, n, t).pubkp)
                 [] OTHER -> None]]
    /\ epoch = [i \in Ids |-> IF i <= n THEN 1 ELSE 0]
    /\ pkg1 = [i \in Ids |-> IF i <= n THEN Some(RunSecret1(i, n, t).package) ELSE None]
    /\ pkg2 = [i \in Ids |-> IF i <= n THEN Some(RunRound2(i, n, t).packages) ELSE None]
    /\ pubkp = [i \in Ids |-> IF i \in ready THEN Some(RunRound3(i, n, t).pubkp) ELSE None]
    /\ hist = [i \in Ids |-> IF i \in ready THEN 3 ELSE IF i <= n THEN 2 ELSE 0]
    /\ r2Fresh = [i \in Ids |-> i <= n]

InitSign ==
    /\ NoGuest
    /\ NoCall
    /\ \E n \in 2 .. 3 : \E t \in 2 .. n : \E k \in 0 .. n : AfterDkg(n, t, 1 .. k)
    /\ nonceCtr = [i \in Ids |-> 0]
    /\ commits = [i \in Ids |-> None]
    /\ shares = [i \in Ids |-> None]
    /\ ret = Ret("start", 0, "Ok", None)
    /\ uses = [i \in Ids |-> 0]
    /\ loaded = None

\* the identity that aggregates: the first one that holds a PublicKeyPackage
Coordinator == {h \in Ids : IsSome(pubkp[h]) /\ \A j \in 1 .. h - 1 : ~IsSome(pubkp[j])}

NextSign ==
    \/ \E i \in Active : sign_round1(i) /\ NoncesDrawn' <= MaxNonce
    \/ \E i \in Active : \E m \in Msgs \cup {BadHex} :
         \E S \in SUBSET {j \in Ids : IsSome(commits[j])} :
           \E stale \in SUBSET {j \in S : nonceCtr[j] > 1} :
             sign_round2(i, m, ReturnedCommits(S, stale))
    \/ \E m \in Msgs \cup {BadHex} : \E h \in Coordinator :
         \E S1 \in SUBSET {j \in Ids : IsSome(shares[j])} :
           \E S2 \in {S1 \cap {j \in Ids : IsSome(commits[j])}, {j \in Ids : IsSome(commits[j])}} :
             aggregate_signature(m, LatestShares(S1), ReturnedCommits(S2, {}), Get(pubkp[h]))

SpecSign == InitSign /\ [][NextSign]_vars

\* ---------------------------------------------- overlapping signing sessions
\* The identities open signing sessions again before they sign: sign_round1
\* and sign_round2 on one message, the host passing any commitments returned
NextOverlap ==
    \/ \E i \in Active : sign_round1(i) /\ NoncesDrawn' <= MaxOverlap
    \/ \E i \in Active :
         \E S \in SUBSET {j \in Ids : IsSome(commits[j])} :
           \E stale \in SUBSET {j \in S : nonceCtr[j] > 1} :
             sign_round2(i, "a1", ReturnedCommits(S, stale))

SpecOverlap == InitSign /\ [][NextOverlap]_vars

\* ------------------------------------------------------ the shared store
\* The two identities of a 2-of-2 session call in any interleaving, from the
\* empty store on: the DKG, init and signing on one message, each call on the
\* latest payloads of the other identity the host holds
InitStore == Init /\ params = [total |-> 2, min |-> 2]

NextStore ==
    \/ \E i \in Active : dkg_round1(i)
    \/ \E i \in Active : dkg_round2(i, LatestPkg1({j \in Ids \ {i} : IsSome(pkg1[j])}))
    \/ \E i \in Active :
         dkg_round3(i, LatestPkg1({j \in Ids \ {i} : IsSome(pkg1[j])}),
                    LatestPkg2({j \in Ids \ {i} : IsSome(pkg2[j]) /\ i \in DOMAIN Get(pkg2[j])}, i))
    \/ \E i \in Active : init(i)
    \/ \E i \in Active : sign_round1(i) /\ NoncesDrawn' <= MaxNonce
    \/ \E i \in Active :
         sign_round2(i, "a1", ReturnedCommits({j \in Ids : IsSome(commits[j])}, {}))

SpecStore == InitStore /\ [][NextStore]_vars

\* ------------------------------------------------- lists of the peers' payloads
\* One 2-of-3 run of the protocol behind: identity r ran dkg_round1 twice
\* before round 2 began, every identity ran rounds 2 and 3 on the latest
\* packages of the others, every identity drew nonces, identity d twice, and
\* every identity signed "a1" on the latest commitments of all three.
RunOf(r, d) ==
    LET e == [i \in Ids |-> IF i = r THEN 2 ELSE 1]
        s1 == [i \in Ids |-> part1(i, 3, 2, e[i]).val]
        s2 == [i \in Ids |->
                 part2(s1[i].secret, [j \in Ids \ {i} |-> s1[j].package]).val]
        s3 == [i \in Ids |->
                 part3(s2[i].secret, [j \in Ids \ {i} |-> s1[j].package],
                       [j \in Ids \ {i} |-> s2[j].packages[i]]).val]
        k == [i \in Ids |-> IF i = d THEN 2 ELSE 1]
        c == [i \in Ids |-> commit(i, k[i])]
        sp == SigningPackage([i \in Ids |-> c[i].commitments], "a1")
    IN [e |-> e, s1 |-> s1, s2 |-> s2, s3 |-> s3, k |-> k, c |-> c,
        sh |-> [i \in Ids |-> sign_with_tweak(sp, c[i].nonces, s3[i].kp).val]]

AfterRun(r, d) ==
    LET run == RunOf(r, d) IN
    /\ params = [total |-> 3, min |-> 2]
    /\ DB = [kind \in Kinds |-> [i \in Ids |->
               CASE kind = "r1" -> Some(run.s1[i].secret)
                 [] kind = "r2" -> Some(run.s2[i].secret)
                 [] kind = "keypkg" -> Some(run.s3[i].kp)
                 [] kind = "pubkeypkg" -> Some(run.s3[i].pubkp)
                 [] kind = "nonces" -> Some(run.c[i].nonces)]]
    /\ epoch = run.e
    /\ nonceCtr = run.k
    /\ pkg1 = [i \in Ids |-> Some(run.s1[i].package)]
    /\ pkg2 = [i \in Ids |-> Some(run.s2[i].packages)]
    /\ pubkp = [i \in Ids |-> Some(run.s3[i].pubkp)]
    /\ commits = [i \in Ids |-> Some(run.c[i].commitments)]
    /\ shares = [i \in Ids |-> Some(run.sh[i])]
    /\ hist = [i \in Ids |-> 3]
    /\ r2Fresh = [i \in Ids |-> TRUE]
    /\ uses = [i \in Ids |-> 1]
    /\ loaded = Some(run.c[3].nonces)

\* the lists of at most n pairs of P, no pair twice, in every order
RECURSIVE ListsUpTo(_, _)
ListsUpTo(P, n) ==
    IF n = 0 THEN {<< >>}
    ELSE LET shorter == ListsUpTo(P, n - 1) IN
         shorter \cup UNION {{Append(l, a) : a \in {x \in P : \A y \in DOMAIN l : l[y] # x}} :
                              l \in shorter}

\* The calls the host makes after the run, with the payloads it holds: the
\* round-1 packages (the latest ones, the one r sent before it ran dkg_round1
\* again, and the next identity's package under r's identifier), the round-2
\* packages directed to the caller, the commitments (the latest ones and the
\* ones d drew first) and the signature shares
PeerCalls(r, d) ==
    LET run == RunOf(r, d)
        Pair(j, v) == [id |-> j, payload |-> v]
        r1 == {Pair(j, run.s1[j].package) : j \in Ids}
                \cup {Pair(r, part1(r, 3, 2, 1).val.package),
                      Pair(r, run.s1[(r % 3) + 1].package)}
        r2(i) == {Pair(j, run.s2[j].packages[i]) : j \in Ids \ {i}}
        cm == {Pair(j, run.c[j].commitments) : j \in Ids}
                \cup {Pair(d, commit(d, 1).commitments)}
        sh == {Pair(j, run.sh[j]) : j \in Ids}
    IN {[fn |-> "dkg_round2", self_id |-> i, received_pkgs_hex |-> l] :
            i \in Ids, l \in ListsUpTo(r1, MaxPairs)}
       \cup UNION {{[fn |-> "dkg_round3", self_id |-> i, r1_pkgs_hex |-> l1, r2_pkgs_hex |-> l2] :
                       l1 \in ListsUpTo(r1, MaxPairs), l2 \in ListsUpTo(r2(i), MaxPairs)} :
                    i \in Ids}
       \cup {[fn |-> "sign_round2", self_id |-> i, message_hex |-> m, commitments |-> l] :
               i \in Ids, m \in Msgs, l \in ListsUpTo(cm, MaxPairs)}
       \cup {[fn |-> "aggregate_signature", message_hex |-> m, sig_shares |-> l1,
               commitments |-> l2, pubkey_hex |-> run.s3[1].pubkp] :
               m \in Msgs, l1 \in ListsUpTo(sh, MaxPairs), l2 \in ListsUpTo(cm, MaxPairs)}

InitPeers ==
    /\ NoGuest
    /\ result = << >>
    /\ ret = Ret("start", 0, "Ok", None)
    /\ \E r \in Ids : \E d \in Ids : AfterRun(r, d) /\ call \in PeerCalls(r, d)

\* the call is made, once
NextPeers ==
    \/ /\ call.fn = "dkg_round2" /\ ret.op = "start"
       /\ dkg_round2(call.self_id, call.received_pkgs_hex)
    \/ /\ call.fn = "dkg_round3" /\ ret.op = "start"
       /\ dkg_round3(call.self_id, call.r1_pkgs_hex, call.r2_pkgs_hex)
    \/ /\ call.fn = "sign_round2" /\ ret.op = "start"
       /\ sign_round2(call.self_id, call.message_hex, call.commitments)
    \/ /\ call.fn = "aggregate_signature" /\ ret.op = "start"
       /\ aggregate_signature(call.message_hex, call.sig_shares, call.commitments,
                              call.pubkey_hex)

SpecPeers == InitPeers /\ [][NextPeers]_vars

\* ------------------------------------------------- failing serializations
\* The host calls again, with a serialize() that the call makes after its
\* DB.insert returning Err: the call ends with a Serde error.
\* dkg_round1: pkg1.serialize() fails after r1_<id> was inserted
dkg_round1_pkg_serialize_err(self_id) ==
    LET idr == identifier_from_u16(self_id)
        r == part1(idr.val, params.total, params.min, epoch[idr.val] + 1) IN
    /\ idr.ok /\ r.ok
    /\ epoch[idr.val] = 0 \/ Restarts < MaxRestarts
    /\ epoch' = [epoch EXCEPT ![idr.val] = @ + 1]
    /\ DB' = DbInsert(DB, "r1", idr.val, r.val.secret)
    /\ ret' = Ret("dkg_round1", idr.val, "Serde", None)
    /\ r2Fresh' = [r2Fresh EXCEPT ![idr.val] = FALSE]
    /\ UNCHANGED << params, zk, pure, nonceCtr, host, hist, uses, loaded >>

\* dkg_round3: pubkp.serialize() fails after keypkg_<id> was inserted
dkg_round3_pubkp_serialize_err(self_id, r1_pkgs_hex, r2_pkgs_hex) ==
    LET secret2 == DbGet(DB, "r2", self_id)
        r1_map == MapFromPairs(r1_pkgs_hex)
        r2_map == MapFromPairs(r2_pkgs_hex)
        r == part3(Get(secret2), r1_map, r2_map) IN
    /\ IsSome(secret2)
    /\ r.ok
    /\ DB' = DbInsert(DB, "keypkg", self_id, r.val.kp)
    /\ ret' = Ret("dkg_round3", self_id, "Serde", None)
    /\ UNCHANGED << params, zk, pure, epoch, nonceCtr, host, ghost >>

\* sign_round1: commitments.serialize() fails after nonces_<id> was inserted
sign_round1_commitments_serialize_err(self_id) ==
    LET key_pkg == get_key_package(DB, self_id)
        c == commit(Tweak(Get(key_pkg)).id, nonceCtr[self_id] + 1) IN
    /\ IsSome(key_pkg)
    /\ NoncesDrawn < MaxNonce
    /\ nonceCtr' = [nonceCtr EXCEPT ![self_id] = @ + 1]
    /\ DB' = DbInsert(DB, "nonces", self_id, c.nonces)
    /\ ret' = Ret("sign_round1", self_id, "Serde", None)
    /\ uses' = [uses EXCEPT ![self_id] = 0]
    /\ UNCHANGED << params, zk, pure, epoch, host, hist, r2Fresh, loaded >>

\* Round 3 of a DKG run, init and the signing round 1 that follows, with
\* serializations that may fail; rounds 1 and 2 of the run are behind
InitFault ==
    /\ NoGuest
    /\ NoCall
    /\ \E n \in 2 .. 3 : \E t \in 2 .. n : AfterDkg(n, t, {})
    /\ nonceCtr = [i \in Ids |-> 0]
    /\ commits = [i \in Ids |-> None]
    /\ shares = [i \in Ids |-> None]
    /\ ret = Ret("start", 0, "Ok", None)
    /\ uses = [i \in Ids |-> 0]
    /\ loaded = None

NextFault ==
    \/ \E i \in Active : dkg_round3(i, LatestPkg1(Active \ {i}), LatestPkg2(Active \ {i}, i))
    \/ \E u \in {0} \cup Active : init(u)
    \/ \E i \in Active : dkg_round1_pkg_serialize_err(i)
    \/ \E i \in Active : dkg_round3_pubkp_serialize_err(i, LatestPkg1(Active \ {i}), LatestPkg2(Active \ {i}, i))
    \/ \E i \in Active : sign_round1_commitments_serialize_err(i)

SpecFault == InitFault /\ [][NextFault]_vars

\* ============================================================ zkVM guests
\* The mint and burn guest programs (ZKP_component/program).  Hashes are
\* symbolic and collision-free: a double SHA-256 is named by what was hashed.
ChainLen == 6        \* verify_chain_with_crate: blocks the chain must have
SlotLen == 32        \* bytes of an ABI slot
HeadLen == 96        \* abi_encode_zkp_burn: offset of the string, 3 * 32
BRIDGE_ADDRESS == << 7, 7 >>   \* the bytes of the bridge's address string
NETWORK_TYPE == "testnet"

\* the addition that wraps around the word
WrappingAdd(a, b) == (a + b) % (U64Max + 1)

\* u64 arithmetic, on a narrow word
SaturatingAdd(a, b) == IF a + b > U64Max THEN U64Max ELSE a + b

\* sha256d::Hash::hash of the 64 bytes left || right
Sha256d(left, right) == << "H", left, right >>

\* A hash as the hex string the bundle carries; to_string and from_str of
\* Txid, TxMerkleNode and BlockHash
HashToString(h) == [hex |-> TRUE, h |-> h]
NotHexString == [hex |-> FALSE, h |-> << "?" >>]
HashFromStr(str) == IF str.hex THEN Ok(str.h) ELSE Err("Hex")

\* the loop with a pos that must be used up by the siblings
RECURSIVE MerkleFold_PosExhausted(_, _, _)
MerkleFold_PosExhausted(current_hash_bytes, siblings, pos) ==
    IF siblings = << >> THEN (IF pos = 0 THEN Ok(current_hash_bytes) ELSE Err("Range"))
    ELSE LET sibling_node == HashFromStr(Head(siblings)) IN
         IF ~sibling_node.ok THEN Err("Hex")
         ELSE MerkleFold_PosExhausted(IF pos % 2 = 0
                                      THEN Sha256d(current_hash_bytes, sibling_node.val)
                                      ELSE Sha256d(sibling_node.val, current_hash_bytes),
                                      Tail(siblings), pos \div 2)

\* the loop without the shift of pos
RECURSIVE MerkleFold_NoShift(_, _, _)
MerkleFold_NoShift(current_hash_bytes, siblings, pos) ==
    IF siblings = << >> THEN Ok(current_hash_bytes)
    ELSE LET sibling_node == HashFromStr(Head(siblings)) IN
         IF ~sibling_node.ok THEN Err("Hex")
         ELSE MerkleFold_NoShift(IF pos % 2 = 0
                                 THEN Sha256d(current_hash_bytes, sibling_node.val)
                                 ELSE Sha256d(sibling_node.val, current_hash_bytes),
                                 Tail(siblings), pos)

\* the loop with the two sides of the concatenation exchanged
RECURSIVE MerkleFold_Swapped(_, _, _)
MerkleFold_Swapped(current_hash_bytes, siblings, pos) ==
    IF siblings = << >> THEN Ok(current_hash_bytes)
    ELSE LET sibling_node == HashFromStr(Head(siblings)) IN
         IF ~sibling_node.ok THEN Err("Hex")
         ELSE MerkleFold_Swapped(IF pos % 2 = 0
                                 THEN Sha256d(sibling_node.val, current_hash_bytes)
                                 ELSE Sha256d(current_hash_bytes, sibling_node.val),
                                 Tail(siblings), pos \div 2)

\* the loop of compute_merkle_root_with_crate
RECURSIVE MerkleFold(_, _, _)
MerkleFold(current_hash_bytes, siblings, pos) ==
    IF siblings = << >> THEN Ok(current_hash_bytes)
    ELSE LET sibling_node == HashFromStr(Head(siblings)) IN
         IF ~sibling_node.ok THEN Err("Hex")
         ELSE MerkleFold(IF pos % 2 = 0
                         THEN Sha256d(current_hash_bytes, sibling_node.val)
                         ELSE Sha256d(sibling_node.val, current_hash_bytes),
                         Tail(siblings), pos \div 2)

compute_merkle_root_with_crate(tx_id_str, merkle_proof) ==
    LET txid == HashFromStr(tx_id_str) IN
    IF ~txid.ok THEN Err("Hex")
    ELSE MerkleFold(txid.val, merkle_proof.siblings, merkle_proof.pos)

verify_tx_inclusion_str(tx_id_str, merkle_proof, target_root_str) ==
    LET computed_root == compute_merkle_root_with_crate(tx_id_str, merkle_proof)
        target_root == HashFromStr(target_root_str) IN
    IF ~computed_root.ok THEN Err("Hex")
    ELSE IF ~target_root.ok THEN Err("Hex")
    ELSE Ok(computed_root.val = target_root.val)

\* Header::block_hash of the header built from a block of the bundle
block_hash(user_block, prev_blockhash, merkle_root) ==
    << "bh", user_block.version, prev_blockhash, merkle_root,
       user_block.timestamp, user_block.difficulty, user_block.nonce >>

\* the loop with the check of the parent before the check of the hash
RECURSIVE ChainLoop_LinkFirst(_, _, _)
ChainLoop_LinkFirst(blocks, i, computed_hashes) ==
    IF i > Len(blocks) THEN Ok(computed_hashes)
    ELSE
    LET user_block == blocks[i]
        expected_block_hash == HashFromStr(user_block.block_hash)
        prev_blockhash == HashFromStr(user_block.parent_hash)
        merkle_root == HashFromStr(user_block.merkle_root) IN
    IF ~expected_block_hash.ok \/ ~prev_blockhash.ok \/ ~merkle_root.ok
    THEN Err([kind |-> "Hex", index |-> i - 1])
    ELSE
    LET computed_block_hash == block_hash(user_block, prev_blockhash.val, merkle_root.val) IN
    IF i > 1 /\ prev_blockhash.val # computed_hashes[i - 1]
    THEN Err([kind |-> "ParentMismatch", index |-> i - 1])
    ELSE IF computed_block_hash # expected_block_hash.val
    THEN Err([kind |-> "HashMismatch", index |-> i - 1])
    ELSE ChainLoop_LinkFirst(blocks, i + 1, Append(computed_hashes, computed_block_hash))

\* the loop of verify_chain_with_crate from block i on (i counts from 1; the
\* index reported is i - 1)
RECURSIVE ChainLoop(_, _, _)
ChainLoop(blocks, i, computed_hashes) ==
    IF i > Len(blocks) THEN Ok(computed_hashes)
    ELSE
    LET user_block == blocks[i]
        expected_block_hash == HashFromStr(user_block.block_hash)
        prev_blockhash == HashFromStr(user_block.parent_hash)
        merkle_root == HashFromStr(user_block.merkle_root) IN
    IF ~expected_block_hash.ok \/ ~prev_blockhash.ok \/ ~merkle_root.ok
    THEN Err([kind |-> "Hex", index |-> i - 1])
    ELSE
    LET computed_block_hash == block_hash(user_block, prev_blockhash.val, merkle_root.val) IN
    IF computed_block_hash # expected_block_hash.val
    THEN Err([kind |-> "HashMismatch", index |-> i - 1])
    ELSE IF i > 1 /\ prev_blockhash.val # computed_hashes[i - 1]
    THEN Err([kind |-> "ParentMismatch", index |-> i - 1])
    ELSE ChainLoop(blocks, i + 1, Append(computed_hashes, computed_block_hash))

\* the chain check without the check of the length
verify_chain_AnyLength(chain) == ChainLoop(chain.blocks, 1, << >>)

verify_chain_with_crate(chain) ==
    IF Len(chain.blocks) # ChainLen
    THEN Err([kind |-> "Length", index |-> Len(chain.blocks)])
    ELSE ChainLoop(chain.blocks, 1, << >>)

\* ---- transactions and addresses
\* hex::decode and consensus deserialize of raw_tx_hex
DecodeTx(raw_tx_hex) ==
    IF ~raw_tx_hex.hex THEN Err("Hex")
    ELSE IF ~IsSome(raw_tx_hex.tx) THEN Err("Decode")
    ELSE Ok(Get(raw_tx_hex.tx))

compute_txid(tx) == << "txid", tx >>

\* The address strings the model knows: the string's bytes, the network its
\* encoding names and the scriptPubKey it stands for; two strings (one the
\* upper-case form of the other) stand for the burner's script
AddressBook ==
    { [str |-> BRIDGE_ADDRESS, net |-> "testnet", spk |-> "bridge"],
      [str |-> << 1, 1, 1 >>,  net |-> "testnet", spk |-> "burner"],
      [str |-> << 2, 2, 2 >>,  net |-> "testnet", spk |-> "burner"],
      [str |-> << 3, 3 >>,     net |-> "mainnet", spk |-> "burner"] }

\* BitcoinAddress::from_str(..).unwrap().require_network(network).unwrap()
AddressFromStr(address_str, network) ==
    IF \E e \in AddressBook : e.str = address_str /\ e.net = network
    THEN Ok([net |-> network,
             spk |-> (CHOOSE e \in AddressBook : e.str = address_str).spk])
    ELSE Err("Panic")

\* BitcoinAddress::from_script
AddressFromScript(script_pubkey, network) ==
    IF script_pubkey.t = "addr" THEN Ok([net |-> network, spk |-> script_pubkey.a])
    ELSE Err("NoAddress")

\* the loop with every OP_RETURN output recorded over the one before
RECURSIVE OutputsLoop_LastMemo(_, _, _, _, _)
OutputsLoop_LastMemo(outputs, k, my_address, total_value_to_me, op_return_data) ==
    IF k > Len(outputs)
    THEN [total |-> total_value_to_me, memo |-> op_return_data]
    ELSE
    LET output == outputs[k] IN
    IF output.script_pubkey.t = "opret"
    THEN OutputsLoop_LastMemo(outputs, k + 1, my_address, total_value_to_me,
                              IF IsSome(output.script_pubkey.push)
                              THEN output.script_pubkey.push ELSE op_return_data)
    ELSE
    LET derived_address == AddressFromScript(output.script_pubkey, my_address.net) IN
    OutputsLoop_LastMemo(outputs, k + 1, my_address,
                         IF derived_address.ok /\ derived_address.val = my_address
                         THEN SaturatingAdd(total_value_to_me, output.value)
                         ELSE total_value_to_me,
                         op_return_data)

\* the loop of process_transaction_outputs over the outputs from k on
RECURSIVE OutputsLoop(_, _, _, _, _)
OutputsLoop(outputs, k, my_address, total_value_to_me, op_return_data) ==
    IF k > Len(outputs)
    THEN [total |-> total_value_to_me, memo |-> op_return_data]
    ELSE
    LET output == outputs[k] IN
    IF output.script_pubkey.t = "opret"
    THEN OutputsLoop(outputs, k + 1, my_address, total_value_to_me,
                     IF ~IsSome(op_return_data) THEN output.script_pubkey.push
                     ELSE op_return_data)
    ELSE
    LET derived_address == AddressFromScript(output.script_pubkey, my_address.net) IN
    OutputsLoop(outputs, k + 1, my_address,
                IF derived_address.ok /\ derived_address.val = my_address
                THEN SaturatingAdd(total_value_to_me, output.value)
                ELSE total_value_to_me,
                op_return_data)

\* the total of every output that pays some address
RECURSIVE TotalToAnyAddress(_)
TotalToAnyAddress(outputs) ==
    IF outputs = << >> THEN 0
    ELSE SaturatingAdd(IF Head(outputs).script_pubkey.t = "addr" THEN Head(outputs).value ELSE 0,
                       TotalToAnyAddress(Tail(outputs)))

sum_outputs_AnyAddress(raw_hex, target_address_str, network) ==
    LET tx == DecodeTx(raw_hex) IN
    IF tx.ok THEN Ok(TotalToAnyAddress(tx.val.output)) ELSE Err(tx.err)

\* process_transaction_outputs (mint) and sum_outputs_to_address (burn, which
\* keeps the total only)
process_transaction_outputs(raw_hex, my_address_str, network) ==
    LET tx == DecodeTx(raw_hex)
        my_address == AddressFromStr(my_address_str, network) IN
    IF ~tx.ok THEN Err(tx.err)
    ELSE IF ~my_address.ok THEN Err("Panic")
    ELSE Ok(OutputsLoop(tx.val.output, 1, my_address.val, 0, None))

sum_outputs_to_address(raw_hex, target_address_str, network) ==
    LET r == process_transaction_outputs(raw_hex, target_address_str, network) IN
    IF r.ok THEN Ok(r.val.total) ELSE r

\* ---- memo and public values
NonUtf8 == "\\xff"     \* memo bytes that are not UTF-8
Memos == {"0xAbC1", "0xabc1", "0xDe02", NonUtf8}

\* String::from_utf8
from_utf8(bytes) == IF bytes = NonUtf8 THEN Err("Utf8") ELSE Ok(bytes)

\* Address::parse_checksummed(s, None): the 20 bytes of an EIP-55 string; the
\* lower-case form of a checksummed string is refused
parse_checksummed(str) ==
    CASE str = "0xAbC1" -> Ok(<< "evm", 1 >>)
      [] str = "0xDe02" -> Ok(<< "evm", 2 >>)
      [] OTHER -> Err("Checksum")

\* txid.to_string().parse::<FixedBytes<32>>(): the bytes in display order
FixedBytesFromStr(str) == IF str.hex THEN Ok(<< "b32", str.h >>) ELSE Err("Hex")

\* ZkpMintPublicValuesStruct::abi_encode: four static slots
abi_encode_mint(v) ==
    << v.tx_id, v.depositer_address, v.amount, IF v.is_valid THEN 1 ELSE 0 >>

\* U256::to_be_bytes and U256::from_be_slice: 32 bytes, most significant first
RECURSIVE BeBytes(_, _)
BeBytes(n, k) == IF k = 0 THEN << >> ELSE Append(BeBytes(n \div 256, k - 1), n % 256)

to_be_bytes(n) == BeBytes(n, SlotLen)

RECURSIVE from_be_slice(_)
from_be_slice(bytes) ==
    IF bytes = << >> THEN 0
    ELSE from_be_slice(SubSeq(bytes, 1, Len(bytes) - 1)) * 256 + bytes[Len(bytes)]

\* the encoder without the padding of the string
abi_encode_zkp_burn_NoPad(burner_btc_address, amount, is_valid) ==
    to_be_bytes(HeadLen) \o to_be_bytes(amount) \o to_be_bytes(IF is_valid THEN 1 ELSE 0)
        \o to_be_bytes(Len(burner_btc_address)) \o burner_btc_address

\* abi_encode_zkp_burn: three head slots, the length slot, then the bytes of
\* the string padded with zeros to a slot boundary
abi_encode_zkp_burn(burner_btc_address, amount, is_valid) ==
    LET s_bytes == burner_btc_address
        rem == Len(s_bytes) % SlotLen
        pad_len == IF rem # 0 THEN SlotLen - rem ELSE 0 IN
    to_be_bytes(HeadLen) \o to_be_bytes(amount) \o to_be_bytes(IF is_valid THEN 1 ELSE 0)
        \o to_be_bytes(Len(s_bytes)) \o s_bytes \o [i \in 1 .. pad_len |-> 0]

\* ---- the steps of main
tss == << DB, params, epoch, nonceCtr, host, ret, ghost >>

NoLocals == [txid |-> << >>, total |-> 0, memo |-> None, deposit_eth_address |-> "",
             burner_btc_address |-> << >>, panic |-> ""]

\* a panic (unwrap, expect, panic!, index out of bounds) ends the execution
Abort(step) ==
    /\ pc' = "aborted"
    /\ local' = [local EXCEPT !.panic = step]
    /\ UNCHANGED << tss, pure, prog, bundle, reads, committed, trace >>

Advance(step, next, loc) ==
    /\ pc' = next
    /\ local' = loc
    /\ trace' = Append(trace, step)
    /\ UNCHANGED << tss, pure, prog, bundle, reads, committed >>

\* let bundle: BundleInfoStruct = sp1_zkvm::io::read()
guest_read ==
    /\ pc = "start"
    /\ reads' = reads + 1
    /\ pc' = IF prog = "mint" THEN "parse" ELSE "address"
    /\ trace' = Append(trace, "read")
    /\ UNCHANGED << tss, pure, prog, bundle, local, committed >>

\* burn: bundle.burner_btc_address.as_ref().expect(..)
burn_address ==
    /\ prog = "burn" /\ pc = "address"
    /\ IF ~IsSome(bundle.burner_btc_address) THEN Abort("address")
       ELSE Advance("address", "parse",
                    [local EXCEPT !.burner_btc_address = Get(bundle.burner_btc_address)])

\* hex::decode(..).unwrap(), deserialize(..).unwrap(), tx.compute_txid()
guest_parse_tx ==
    /\ pc = "parse"
    /\ LET tx == DecodeTx(bundle.bit_tx_info.raw_tx_hex) IN
       IF ~tx.ok THEN Abort("parse")
       ELSE Advance("parse", "outputs", [local EXCEPT !.txid = compute_txid(tx.val)])

\* mint: process_transaction_outputs(.., BRIDGE_ADDRESS, NETWORK_TYPE).unwrap()
mint_outputs ==
    /\ prog = "mint" /\ pc = "outputs"
    /\ LET r == process_transaction_outputs(bundle.bit_tx_info.raw_tx_hex,
                                            BRIDGE_ADDRESS, NETWORK_TYPE) IN
       IF ~r.ok THEN Abort("outputs")
       ELSE Advance("outputs", "memo",
                    [local EXCEPT !.total = r.val.total, !.memo = r.val.memo])

\* burn: sum_outputs_to_address(.., burner_btc_address, NETWORK_TYPE).unwrap()
burn_outputs ==
    /\ prog = "burn" /\ pc = "outputs"
    /\ LET r == sum_outputs_to_address(bundle.bit_tx_info.raw_tx_hex,
                                       local.burner_btc_address, NETWORK_TYPE) IN
       IF ~r.ok THEN Abort("outputs")
       ELSE Advance("outputs", "inclusion", [local EXCEPT !.total = r.val])

\* mint: the memo must be there and be UTF-8
mint_memo ==
    /\ prog = "mint" /\ pc = "memo"
    /\ IF ~IsSome(local.memo) THEN Abort("memo")
       ELSE LET memo_str == from_utf8(Get(local.memo)) IN
            IF ~memo_str.ok THEN Abort("memo")
            ELSE Advance("memo", "inclusion",
                         [local EXCEPT !.deposit_eth_address = memo_str.val])

\* the inclusion check followed by the commit at once
guest_inclusion_SkipsChain ==
    /\ pc = "inclusion"
    /\ bundle.chains.blocks # << >>
    /\ LET r == verify_tx_inclusion_str(HashToString(local.txid), bundle.merkle_proof,
                                        bundle.chains.blocks[1].merkle_root) IN
       IF r.ok /\ r.val THEN Advance("inclusion", "commit", local)
       ELSE Abort("inclusion")

\* verify_tx_inclusion_str(txid, merkle_proof, chains.blocks[0].merkle_root)
guest_inclusion ==
    /\ pc = "inclusion"
    /\ IF bundle.chains.blocks = << >> THEN Abort("inclusion")
       ELSE LET r == verify_tx_inclusion_str(HashToString(local.txid), bundle.merkle_proof,
                                             bundle.chains.blocks[1].merkle_root) IN
            IF r.ok /\ r.val THEN Advance("inclusion", "chain", local)
            ELSE Abort("inclusion")

\* the chain check with its result dropped
guest_chain_Unchecked == pc = "chain" /\ Advance("chain", "commit", local)

\* verify_chain_with_crate(&bundle.chains)
guest_chain ==
    /\ pc = "chain"
    /\ IF verify_chain_with_crate(bundle.chains).ok THEN Advance("chain", "commit", local)
       ELSE Abort("chain")

\* the commit with a memo that is no checksummed address let through
mint_commit_AnyMemo ==
    /\ prog = "mint" /\ pc = "commit"
    /\ LET tx_id == FixedBytesFromStr(HashToString(local.txid))
           depositer_address == parse_checksummed(local.deposit_eth_address) IN
       /\ committed' = Append(committed,
              abi_encode_mint([tx_id |-> tx_id.val,
                               depositer_address |-> IF depositer_address.ok
                                                     THEN depositer_address.val
                                                     ELSE << "evm", 0 >>,
                               amount |-> local.total, is_valid |-> TRUE]))
       /\ pc' = "done"
       /\ trace' = Append(trace, "commit")
       /\ UNCHANGED << tss, pure, prog, bundle, reads, local >>

\* the commit that refuses a total of zero
mint_commit_RejectsZero ==
    /\ prog = "mint" /\ pc = "commit"
    /\ LET tx_id == FixedBytesFromStr(HashToString(local.txid))
           depositer_address == parse_checksummed(local.deposit_eth_address) IN
       IF ~tx_id.ok \/ ~depositer_address.ok \/ local.total = 0 THEN Abort("commit")
       ELSE /\ committed' = Append(committed,
                   abi_encode_mint([tx_id |-> tx_id.val,
                                    depositer_address |-> depositer_address.val,
                                    amount |-> local.total, is_valid |-> TRUE]))
            /\ pc' = "done"
            /\ trace' = Append(trace, "commit")
            /\ UNCHANGED << tss, pure, prog, bundle, reads, local >>

\* mint: encode the public values and commit them
mint_commit ==
    /\ prog = "mint" /\ pc = "commit"
    /\ LET tx_id == FixedBytesFromStr(HashToString(local.txid))
           depositer_address == parse_checksummed(local.deposit_eth_address) IN
       IF ~tx_id.ok \/ ~depositer_address.ok THEN Abort("commit")
       ELSE /\ committed' = Append(committed,
                   abi_encode_mint([tx_id |-> tx_id.val,
                                    depositer_address |-> depositer_address.val,
                                    amount |-> local.total, is_valid |-> TRUE]))
            /\ pc' = "done"
            /\ trace' = Append(trace, "commit")
            /\ UNCHANGED << tss, pure, prog, bundle, reads, local >>

\* burn: encode the public values and commit them
burn_commit ==
    /\ prog = "burn" /\ pc = "commit"
    /\ committed' = Append(committed,
           abi_encode_zkp_burn(local.burner_btc_address, local.total, TRUE))
    /\ pc' = "done"
    /\ trace' = Append(trace, "commit")
    /\ UNCHANGED << tss, pure, prog, bundle, reads, local >>

\* ---- the bundles the host may supply
OpReturn(push) == [script_pubkey |-> [t |-> "opret", a |-> "", push |-> push], value |-> 0]
PayTo(a, v) == [script_pubkey |-> [t |-> "addr", a |-> a, push |-> None], value |-> v]
NonStandard(v) == [script_pubkey |-> [t |-> "other", a |-> "", push |-> None], value |-> v]

TxOuts ==
    {PayTo("bridge", 1), PayTo("bridge", 2), PayTo("burner", 2), NonStandard(1),
     OpReturn(None)} \cup {OpReturn(Some(m)) : m \in Memos}

\* raw_tx_hex: transactions of up to two outputs, a string that is not hex,
\* and hex that is no transaction
RawTxs ==
    {[hex |-> TRUE, tx |-> Some([output |-> o])] :
        o \in {<< >>} \cup {<< a >> : a \in TxOuts} \cup (TxOuts \X TxOuts)}
    \cup {[hex |-> FALSE, tx |-> None], [hex |-> TRUE, tx |-> None]}

Leaf(k) == << "leaf", k >>

MerkleProofs ==
    {[siblings |-> << >>, pos |-> 0],
     [siblings |-> << HashToString(Leaf(1)) >>, pos |-> 0],
     [siblings |-> << HashToString(Leaf(1)) >>, pos |-> 1],
     [siblings |-> << HashToString(Leaf(1)), HashToString(Leaf(2)) >>, pos |-> 2],
     [siblings |-> << NotHexString >>, pos |-> 0]}

\* a block with a consistent hash on a parent hash and a merkle root
MinedBlock(parent, root, nonce) ==
    LET fields == [version |-> 2, timestamp |-> 1, difficulty |-> 1, nonce |-> nonce] IN
    [block_hash |-> HashToString(block_hash(fields, parent, root)),
     version |-> fields.version, parent_hash |-> HashToString(parent),
     merkle_root |-> HashToString(root), timestamp |-> fields.timestamp,
     difficulty |-> fields.difficulty, nonce |-> fields.nonce]

\* a linked chain of n blocks, the first one with the merkle root `root`
RECURSIVE LinkedChain(_, _)
LinkedChain(n, root) ==
    IF n = 0 THEN << >>
    ELSE IF n = 1 THEN << MinedBlock(<< "bh0" >>, root, 0) >>
    ELSE LET before == LinkedChain(n - 1, root) IN
         Append(before, MinedBlock(HashFromStr(before[n - 1].block_hash).val, Leaf(n), 0))

ChainKinds == {"good", "empty", "five", "nonce", "link", "root"}

MakeChain(kind, root) ==
    LET good == LinkedChain(ChainLen, root) IN
    CASE kind = "good" -> good
      [] kind = "empty" -> << >>
      [] kind = "five" -> SubSeq(good, 1, ChainLen - 1)
      [] kind = "nonce" -> [good EXCEPT ![4].nonce = @ + 1]
      [] kind = "link" -> [good EXCEPT ![3] = MinedBlock(<< "bh0" >>, Leaf(3), 0)]
      [] kind = "root" -> [good EXCEPT ![1].merkle_root = NotHexString]

\* the bundle on a raw transaction, a proof and a chain; `honest`: the first
\* block's merkle root is the one the proof gives for the transaction
BundleOf(raw, proof, kind, honest, burner) ==
    LET tx == DecodeTx(raw)
        r == IF tx.ok
             THEN compute_merkle_root_with_crate(HashToString(compute_txid(tx.val)), proof)
             ELSE Err("Decode")
        root == IF honest /\ r.ok THEN r.val ELSE Leaf(0) IN
    [merkle_proof |-> proof, chains |-> [blocks |-> MakeChain(kind, root)],
     bit_tx_info |-> [raw_tx_hex |-> raw], burner_btc_address |-> burner]

BurnerStrings == {<< 1, 1, 1 >>, << 2, 2, 2 >>, << 3, 3 >>, << 9 >>}

Bundles(burners) ==
    {BundleOf(raw, proof, k[1], k[2], b) :
        raw \in RawTxs, proof \in MerkleProofs,
        k \in (ChainKinds \X {TRUE}) \cup {<< "good", FALSE >>}, b \in burners}

InitGuest ==
    /\ DB = [k \in Kinds |-> [i \in Ids |-> None]]
    /\ params = [total |-> 2, min |-> 2]
    /\ epoch = [i \in Ids |-> 0]
    /\ nonceCtr = [i \in Ids |-> 0]
    /\ pkg1 = [i \in Ids |-> None]
    /\ pkg2 = [i \in Ids |-> None]
    /\ pubkp = [i \in Ids |-> None]
    /\ commits = [i \in Ids |-> None]
    /\ shares = [i \in Ids |-> None]
    /\ ret = Ret("start", 0, "Ok", None)
    /\ hist = [i \in Ids |-> 0]
    /\ r2Fresh = [i \in Ids |-> FALSE]
    /\ uses = [i \in Ids |-> 0]
    /\ loaded = None
    /\ \/ prog = "mint" /\ bundle \in Bundles({None})
       \/ prog = "burn" /\ bundle \in Bundles({None} \cup {Some(b) : b \in BurnerStrings})
    /\ NoCall
    /\ pc = "start"
    /\ reads = 0
    /\ local = NoLocals
    /\ committed = << >>
    /\ trace = << >>

NextGuest ==
    \/ guest_read
    \/ burn_address
    \/ guest_parse_tx
    \/ mint_outputs
    \/ burn_outputs
    \/ mint_memo
    \/ guest_inclusion
    \/ guest_chain
    \/ mint_commit
    \/ burn_commit

SpecGuest == InitGuest /\ [][NextGuest]_vars


\* ======================================================= transaction builder
\* bitcoin_related.rs.  u64 arithmetic on the word 0 .. TxU64Max: an overflow
\* panics when the build checks overflows and wraps around when it does not.
DUST_LIMIT == 546
TapSighashAll == 1     \* TapSighashType::All as the byte of the witness

U64Mul(a, b, overflow_checks) ==
    IF a * b <= TxU64Max THEN Ok(a * b)
    ELSE IF overflow_checks THEN Err("Panic") ELSE Ok((a * b) % (TxU64Max + 1))

U64Add(a, b, overflow_checks) ==
    IF a + b <= TxU64Max THEN Ok(a + b)
    ELSE IF overflow_checks THEN Err("Panic") ELSE Ok((a + b) % (TxU64Max + 1))

U64Sub(a, b, overflow_checks) ==
    IF a >= b THEN Ok(a - b)
    ELSE IF overflow_checks THEN Err("Panic") ELSE Ok(a - b + TxU64Max + 1)

parse_network(network_str) ==
    CASE network_str = "mainnet" -> Ok("Bitcoin")
      [] network_str = "testnet" -> Ok("Testnet")
      [] network_str = "signet" -> Ok("Signet")
      [] network_str = "regtest" -> Ok("Regtest")
      [] OTHER -> Err("InvalidNetwork")

\* the dust comparison with the limit itself taken for dust
calculate_change_DustInclusive(utxo_value, send_value, fee_rate_sat_per_vbyte, with_change, overflow_checks) ==
    LET fee == U64Mul(58 + 43 + 43 + 10, fee_rate_sat_per_vbyte, overflow_checks)
        needed == IF fee.ok THEN U64Add(send_value, fee.val, overflow_checks) ELSE fee IN
    IF ~needed.ok THEN Err("Panic")
    ELSE IF utxo_value < needed.val THEN Err("Insufficient")
    ELSE LET change == U64Sub(U64Sub(utxo_value, send_value, FALSE).val, fee.val, FALSE).val IN
         IF change <= DUST_LIMIT THEN Ok(None) ELSE Ok(Some(change))

\* the fee estimated without the change output
calculate_change_NoChangeEstimate(utxo_value, send_value, fee_rate_sat_per_vbyte, with_change, overflow_checks) ==
    LET fee == U64Mul(58 + 43 + 10, fee_rate_sat_per_vbyte, overflow_checks)
        needed == IF fee.ok THEN U64Add(send_value, fee.val, overflow_checks) ELSE fee IN
    IF ~needed.ok THEN Err("Panic")
    ELSE IF utxo_value < needed.val THEN Err("Insufficient")
    ELSE LET change == U64Sub(U64Sub(utxo_value, send_value, FALSE).val, fee.val, FALSE).val IN
         IF change < DUST_LIMIT THEN Ok(None) ELSE Ok(Some(change))

\* calculate_change; "Insufficient" is BtcError::General("Insufficient UTXO
\* value: ..")
calculate_change(utxo_value, send_value, fee_rate_sat_per_vbyte, with_change, overflow_checks) ==
    LET estimated_vbytes == IF with_change THEN 58 + 43 + 43 + 10 ELSE 58 + 43 + 10
        fee == U64Mul(estimated_vbytes, fee_rate_sat_per_vbyte, overflow_checks)
        needed == IF fee.ok THEN U64Add(send_value, fee.val, overflow_checks) ELSE fee IN
    IF ~needed.ok THEN Err("Panic")
    ELSE IF utxo_value < needed.val THEN Err("Insufficient")
    ELSE LET rest == U64Sub(utxo_value, send_value, overflow_checks)
             change == IF rest.ok THEN U64Sub(rest.val, fee.val, overflow_checks) ELSE rest IN
         IF ~change.ok THEN Err("Panic")
         ELSE IF change.val < DUST_LIMIT THEN Ok(None) ELSE Ok(Some(change.val))

\* Address::from_str(..)?.require_network(network)?: a tb address is valid on
\* testnet and signet, a bc address on mainnet
AddressForNetwork(address_str, network) ==
    IF \E e \in AddressBook :
          /\ e.str = address_str
          /\ \/ e.net = "mainnet" /\ network = "Bitcoin"
             \/ e.net = "testnet" /\ network \in {"Testnet", "Signet"}
    THEN Ok((CHOOSE e \in AddressBook : e.str = address_str).spk)
    ELSE Err("AddressParse")

SequenceMax == "0xFFFFFFFF"

\* the builder with the change output before the recipient's
create_unsigned_tx_ChangeFirst(utxo_txid, utxo_vout, utxo_value, to_address, send_value, fee_rate_sat_per_vbyte, change_address, network, overflow_checks) ==
    LET txid == HashFromStr(utxo_txid)
        to_addr == AddressForNetwork(to_address, network)
        maybe_change_value == calculate_change(utxo_value, send_value, fee_rate_sat_per_vbyte,
                                               TRUE, overflow_checks)
        change_addr == AddressForNetwork(change_address, network)
        input == << [previous_output |-> [txid |-> txid.val, vout |-> utxo_vout],
                     script_sig |-> << >>, sequence |-> SequenceMax, witness |-> << >>] >>
        Tx(tx_outs) == [version |-> 2, lock_time |-> 0, input |-> input, output |-> tx_outs] IN
    IF ~txid.ok THEN Err("TxidParse")
    ELSE IF ~to_addr.ok THEN Err("AddressParse")
    ELSE IF ~maybe_change_value.ok THEN maybe_change_value
    ELSE IF ~IsSome(maybe_change_value.val) THEN Ok(Tx(<< PayTo(to_addr.val, send_value) >>))
    ELSE IF ~change_addr.ok THEN Err("AddressParse")
    ELSE Ok(Tx(<< PayTo(change_addr.val, Get(maybe_change_value.val)),
                  PayTo(to_addr.val, send_value) >>))

create_unsigned_tx(utxo_txid, utxo_vout, utxo_value, to_address, send_value, fee_rate_sat_per_vbyte, change_address, network, overflow_checks) ==
    LET txid == HashFromStr(utxo_txid)
        to_addr == AddressForNetwork(to_address, network)
        maybe_change_value == calculate_change(utxo_value, send_value, fee_rate_sat_per_vbyte,
                                               TRUE, overflow_checks)
        change_addr == AddressForNetwork(change_address, network)
        input == << [previous_output |-> [txid |-> txid.val, vout |-> utxo_vout],
                     script_sig |-> << >>, sequence |-> SequenceMax, witness |-> << >>] >>
        Tx(tx_outs) == [version |-> 2, lock_time |-> 0, input |-> input, output |-> tx_outs] IN
    IF ~txid.ok THEN Err("TxidParse")
    ELSE IF ~to_addr.ok THEN Err("AddressParse")
    ELSE IF ~maybe_change_value.ok THEN maybe_change_value
    ELSE IF ~IsSome(maybe_change_value.val) THEN Ok(Tx(<< PayTo(to_addr.val, send_value) >>))
    ELSE IF ~change_addr.ok THEN Err("AddressParse")
    ELSE Ok(Tx(<< PayTo(to_addr.val, send_value),
                  PayTo(change_addr.val, Get(maybe_change_value.val)) >>))

\* the BIP-341 key-spend signature hash, named by what it commits to
compute_taproot_sighash(tx, input_index, prev_value, prev_script_pubkey) ==
    Ok(<< "sighash", tx, input_index,
          [value |-> prev_value, script_pubkey |-> prev_script_pubkey], TapSighashAll >>)

\* hex::encode(serialize(&tx)) and its inverse
SerializeTx(tx) == [hex |-> TRUE, tx |-> Some(tx)]

\* prepare_unsigned_tx_and_sighash; "BadPrevSpk" is BtcError::General("bad
\* prev_spk_hex: ..")
prepare_unsigned_tx_and_sighash(utxo_txid, utxo_vout, prev_value, prev_spk_hex, to_address, send_value, fee_rate_sat_per_vbyte, change_address, network_str, overflow_checks) ==
    LET network == parse_network(network_str)
        tx == create_unsigned_tx(utxo_txid, utxo_vout, prev_value, to_address, send_value,
                                 fee_rate_sat_per_vbyte, change_address, network.val,
                                 overflow_checks) IN
    IF ~network.ok THEN Err("InvalidNetwork")
    ELSE IF ~tx.ok THEN tx
    ELSE IF ~prev_spk_hex.hex THEN Err("BadPrevSpk")
    ELSE Ok([unsigned_tx_hex |-> SerializeTx(tx.val),
             sighash_hex |-> compute_taproot_sighash(tx.val, 0, prev_value, prev_spk_hex.h).val])

\* taproot::Signature::to_vec under Witness::p2tr_key_spend: the 64 bytes,
\* followed by the sighash type unless the type is Default (0)
SerializeTapSig(signature, sighash_type) ==
    IF sighash_type = 0 THEN signature ELSE Append(signature, sighash_type)

\* the witness built for the sighash type Default
finalize_signed_tx_DefaultType(tx, input_index, schnorr_sig_hex) ==
    IF ~schnorr_sig_hex.hex THEN Err("Hex")
    ELSE IF Len(schnorr_sig_hex.bytes) # SigLen THEN Err("Secp256k1")
    ELSE IF input_index + 1 > Len(tx.input) THEN Err("Panic")
    ELSE Ok(SerializeTx([tx EXCEPT !.input[input_index + 1].witness =
                                       << SerializeTapSig(schnorr_sig_hex.bytes, 0) >>]))

\* finalize_signed_tx; SchnorrSig::from_slice takes 64 bytes and nothing else
finalize_signed_tx(tx, input_index, schnorr_sig_hex) ==
    IF ~schnorr_sig_hex.hex THEN Err("Hex")
    ELSE IF Len(schnorr_sig_hex.bytes) # SigLen THEN Err("Secp256k1")
    ELSE IF input_index + 1 > Len(tx.input) THEN Err("Panic")
    ELSE Ok(SerializeTx([tx EXCEPT !.input[input_index + 1].witness =
                                       << SerializeTapSig(schnorr_sig_hex.bytes, TapSighashAll) >>]))

\* finalize_signed_tx_from_hex: every failure reaches the host as a ValueError
finalize_signed_tx_from_hex(tx_hex, sig_hex) ==
    LET tx == DecodeTx(tx_hex) IN
    IF ~tx.ok THEN Err(IF tx.err = "Hex" THEN "InvalidTxHex" ELSE "ParseTx")
    ELSE finalize_signed_tx(tx.val, 0, sig_hex)

\* ========================================= functions evaluated on their own
\* One function of the program is applied to arguments the caller chose:
\* `call` names the function and holds the arguments, `result` what it returned.
Returns(value) ==
    /\ result = None
    /\ result' = Some(value)
    /\ UNCHANGED << tss, zk, call >>

\* ---- verify_chain_with_crate
\* n consistent, linked blocks on the parent hash `parent`; block k carries
\* the merkle root Leaf(k)
RECURSIVE LinkedChainOn(_, _)
LinkedChainOn(parent, n) ==
    IF n = 0 THEN << >>
    ELSE LET before == LinkedChainOn(parent, n - 1)
             prev == IF n = 1 THEN parent ELSE HashFromStr(before[n - 1].block_hash).val IN
         Append(before, MinedBlock(prev, Leaf(n), 0))

\* the ways one block of a chain may be changed
BlockFaults == {"nonce", "timestamp", "version", "difficulty", "root", "claimed", "parent",
                "relinked", "root_not_hex", "claimed_not_hex", "parent_not_hex"}

Damage(blocks, k, fault) ==
    LET b == blocks[k] IN
    CASE fault = "nonce" -> [blocks EXCEPT ![k].nonce = @ + 1]
      [] fault = "timestamp" -> [blocks EXCEPT ![k].timestamp = @ + 1]
      [] fault = "version" -> [blocks EXCEPT ![k].version = @ + 1]
      [] fault = "difficulty" -> [blocks EXCEPT ![k].difficulty = @ + 1]
      [] fault = "root" -> [blocks EXCEPT ![k].merkle_root = HashToString(Leaf(0))]
      [] fault = "claimed" -> [blocks EXCEPT ![k].block_hash = HashToString(Leaf(0))]
      [] fault = "parent" -> [blocks EXCEPT ![k].parent_hash = HashToString(Leaf(0))]
      [] fault = "relinked" -> [blocks EXCEPT ![k] = MinedBlock(Leaf(0), Leaf(k), 0)]
      [] fault = "root_not_hex" -> [blocks EXCEPT ![k].merkle_root = NotHexString]
      [] fault = "claimed_not_hex" -> [blocks EXCEPT ![k].block_hash = NotHexString]
      [] fault = "parent_not_hex" -> [blocks EXCEPT ![k].parent_hash = NotHexString]

ChainInputs ==
    {LinkedChainOn(p, n) : p \in {<< "bh0" >>, Leaf(0)}, n \in {0, 1, ChainLen - 1, ChainLen, ChainLen + 1}}
    \cup {Damage(LinkedChainOn(<< "bh0" >>, n), k, f) :
             n \in {ChainLen, ChainLen + 1}, k \in 1 .. ChainLen, f \in BlockFaults}
    \cup {Damage(Damage(LinkedChainOn(<< "bh0" >>, ChainLen), k, "nonce"), k + 1, "relinked") :
             k \in 1 .. ChainLen - 1}

call_verify_chain_with_crate ==
    /\ call.fn = "verify_chain_with_crate"
    /\ Returns(verify_chain_with_crate(call.chain))

CallsChain == {[fn |-> "verify_chain_with_crate", chain |-> [blocks |-> c]] : c \in ChainInputs}

\* ---- verify_tx_inclusion_str
\* The merkle tree of a block as Bitcoin builds it: the hashes of a level are
\* paired left to right, the last one with itself when the level is odd
RECURSIVE PairUp(_)
PairUp(level) ==
    IF level = << >> THEN << >>
    ELSE IF Len(level) = 1 THEN << Sha256d(level[1], level[1]) >>
    ELSE << Sha256d(level[1], level[2]) >> \o PairUp(SubSeq(level, 3, Len(level)))

RECURSIVE MerkleRootOf(_)
MerkleRootOf(level) == IF Len(level) = 1 THEN level[1] ELSE MerkleRootOf(PairUp(level))

\* the siblings of the leaf at the 0-based index idx, from the leaves up
RECURSIVE AuthenticPath(_, _)
AuthenticPath(level, idx) ==
    IF Len(level) = 1 THEN << >>
    ELSE LET sibling == IF idx % 2 = 1 THEN level[idx]
                        ELSE IF idx + 2 <= Len(level) THEN level[idx + 2]
                        ELSE level[idx + 1] IN
         << sibling >> \o AuthenticPath(PairUp(level), idx \div 2)

TxidsOfBlock(L) == [k \in 1 .. L |-> Leaf(k)]

\* 2^n: the first position that n shifts of pos do not read
RECURSIVE TwoTo(_)
TwoTo(n) == IF n = 0 THEN 1 ELSE 2 * TwoTo(n - 1)

\* the ways the proof of a leaf may differ from the authentic one
ProofChanges(path, idx) ==
    {[kind |-> "authentic", k |-> 0], [kind |-> "pos+1", k |-> 0], [kind |-> "extra", k |-> 0],
     [kind |-> "root", k |-> 0]}
    \cup {[kind |-> "pos-1", k |-> 0] : x \in {1} \cap (1 .. idx)}
    \cup {[kind |-> "dropped", k |-> 0] : x \in {1} \cap (1 .. Len(path))}
    \cup {[kind |-> "sibling", k |-> k] : k \in 1 .. Len(path)}
    \cup {[kind |-> "not_hex", k |-> k] : k \in 1 .. Len(path)}
    \cup {[kind |-> "high_bits", k |-> k] : k \in 1 .. 2}

ProofWith(path, idx, how) ==
    LET strs == [k \in 1 .. Len(path) |-> HashToString(path[k])] IN
    CASE how.kind = "pos+1" -> [siblings |-> strs, pos |-> idx + 1]
      [] how.kind = "pos-1" -> [siblings |-> strs, pos |-> idx - 1]
      [] how.kind = "high_bits" -> [siblings |-> strs, pos |-> idx + how.k * TwoTo(Len(path))]
      [] how.kind = "extra" -> [siblings |-> Append(strs, HashToString(Leaf(0))), pos |-> idx]
      [] how.kind = "dropped" -> [siblings |-> SubSeq(strs, 1, Len(strs) - 1), pos |-> idx]
      [] how.kind = "sibling" ->
            [siblings |-> [strs EXCEPT ![how.k] = HashToString(Leaf(0))], pos |-> idx]
      [] how.kind = "not_hex" -> [siblings |-> [strs EXCEPT ![how.k] = NotHexString], pos |-> idx]
      [] OTHER -> [siblings |-> strs, pos |-> idx]

CallsInclusion ==
    {[fn |-> "verify_tx_inclusion_str",
      tx_id_str |-> HashToString(TxidsOfBlock(c.L)[c.idx + 1]),
      merkle_proof |-> ProofWith(AuthenticPath(TxidsOfBlock(c.L), c.idx), c.idx, c.how),
      target_root_str |-> HashToString(IF c.how.kind = "root" THEN Leaf(0)
                                       ELSE MerkleRootOf(TxidsOfBlock(c.L))),
      L |-> c.L, idx |-> c.idx, how |-> c.how] :
        c \in UNION {UNION {{[L |-> L, idx |-> idx, how |-> h] :
                               h \in ProofChanges(AuthenticPath(TxidsOfBlock(L), idx), idx)} :
                            idx \in 0 .. L - 1} : L \in 1 .. MaxLeaves}}

call_verify_tx_inclusion_str ==
    /\ call.fn = "verify_tx_inclusion_str"
    /\ Returns(verify_tx_inclusion_str(call.tx_id_str, call.merkle_proof, call.target_root_str))

\* ---- process_transaction_outputs
\* transactions of up to three outputs, with OP_RETURN outputs that carry a
\* pushed data item and OP_RETURN outputs that carry none
MemoOuts == {PayTo("bridge", 1), OpReturn(None), OpReturn(Some("0xAbC1")), OpReturn(Some("0xDe02"))}

MemoTxs ==
    {[hex |-> TRUE, tx |-> Some([output |-> o])] :
        o \in {<< >>} \cup {<< a >> : a \in MemoOuts} \cup (MemoOuts \X MemoOuts)
              \cup (MemoOuts \X MemoOuts \X MemoOuts)}
    \cup {[hex |-> FALSE, tx |-> None], [hex |-> TRUE, tx |-> None]}

\* transactions for the totals: outputs to the target, to another address,
\* with a script that is no address, and an OP_RETURN output with a value
SumTxs ==
    LET outs == {PayTo("bridge", 2), PayTo("bridge", 1), PayTo("burner", 2), NonStandard(2),
                 [OpReturn(None) EXCEPT !.value = 2]} IN
    {[hex |-> TRUE, tx |-> Some([output |-> o])] :
        o \in {<< a >> : a \in outs} \cup (outs \X outs) \cup (outs \X outs \X outs)}

CallsOutputs ==
    {[fn |-> "process_transaction_outputs", raw_hex |-> raw, my_address_str |-> BRIDGE_ADDRESS,
      network |-> NETWORK_TYPE] : raw \in MemoTxs \cup SumTxs}

CallsSum ==
    {[fn |-> "sum_outputs_to_address", raw_hex |-> raw, target_address_str |-> a,
      network |-> NETWORK_TYPE] : raw \in SumTxs, a \in {<< 1, 1, 1 >>, BRIDGE_ADDRESS}}

call_sum_outputs_to_address ==
    /\ call.fn = "sum_outputs_to_address"
    /\ Returns(sum_outputs_to_address(call.raw_hex, call.target_address_str, call.network))

call_process_transaction_outputs ==
    /\ call.fn = "process_transaction_outputs"
    /\ Returns(process_transaction_outputs(call.raw_hex, call.my_address_str, call.network))

\* ---- abi_encode_zkp_burn and the decoder of the host
\* String::from_utf8_lossy on strings of one- and two-byte characters: a byte
\* that starts no character becomes U+FFFD
RECURSIVE from_utf8_lossy(_)
from_utf8_lossy(bytes) ==
    IF bytes = << >> THEN << >>
    ELSE IF bytes[1] < 128 THEN << bytes[1] >> \o from_utf8_lossy(Tail(bytes))
    ELSE IF bytes[1] \in 194 .. 223 /\ Len(bytes) >= 2 /\ bytes[2] \in 128 .. 191
    THEN << bytes[1], bytes[2] >> \o from_utf8_lossy(SubSeq(bytes, 3, Len(bytes)))
    ELSE << 239, 191, 189 >> \o from_utf8_lossy(Tail(bytes))

\* decode_output of the burn circuit (script/src/bin/main.rs)
decode_output(bytes) ==
    IF Len(bytes) < 4 * SlotLen THEN Err("TooShort")
    ELSE LET amount == from_be_slice(SubSeq(bytes, SlotLen + 1, 2 * SlotLen))
             is_valid == from_be_slice(SubSeq(bytes, 2 * SlotLen + 1, 3 * SlotLen)) = 1
             str_len == from_be_slice(SubSeq(bytes, 3 * SlotLen + 1, 4 * SlotLen))
             str_start == 4 * SlotLen
             str_end == str_start + str_len
             btc_addr == IF Len(bytes) >= str_end
                         THEN Ok(from_utf8_lossy(SubSeq(bytes, str_start + 1, str_end)))
                         ELSE Err("<decode error>") IN
         Ok([btc_addr |-> btc_addr, amount |-> amount, is_valid |-> is_valid])

\* address strings (UTF-8): ASCII of several lengths around the slot
\* boundaries, and one with a two-byte character
AsciiOf(n) == [i \in 1 .. n |-> 97 + (i % 7)]
AddressStrings ==
    {AsciiOf(n) : n \in {0, 1, SlotLen - 1, SlotLen, SlotLen + 1, 2 * SlotLen, 2 * SlotLen + 1}}
    \cup {<< 98, 99, 195, 169 >>, << 116, 98, 49, 113 >>}

CallsEncode ==
    {[fn |-> "abi_encode_zkp_burn", burner_btc_address |-> a, amount |-> v, is_valid |-> b] :
        a \in AddressStrings, v \in {0, 1, 255, 256, 65536 + 7}, b \in BOOLEAN}

call_abi_encode_zkp_burn ==
    /\ call.fn = "abi_encode_zkp_burn"
    /\ Returns(abi_encode_zkp_burn(call.burner_btc_address, call.amount, call.is_valid))

\* ---- the amounts of the builder
VBytesWithChange == 58 + 43 + 43 + 10

\* (utxo value, send value, fee rate): around the fee and the dust limit, the
\* values of scenario E3, and values at the end of the word
BuilderAmounts ==
    {[utxo |-> send + VBytesWithChange * rate + d, send |-> send, rate |-> rate] :
        send \in {0, 1, 50000}, rate \in {0, 1, 10},
        d \in {0, 1, DUST_LIMIT - 1, DUST_LIMIT, DUST_LIMIT + 1, 1000}}
    \cup {[utxo |-> send + VBytesWithChange * rate - 1, send |-> send, rate |-> rate] :
             send \in {1, 50000}, rate \in {0, 1, 10}}
    \cup {[utxo |-> 100000, send |-> send, rate |-> 10] :
             send \in {50000, 97914, 97915, 98460, 98461, 98914}}
    \cup {[utxo |-> 1000, send |-> TxU64Max, rate |-> 1],
          [utxo |-> 1000, send |-> TxU64Max - 100, rate |-> 1],
          [utxo |-> 1000, send |-> 1, rate |-> (TxU64Max + 1) \div 2]}

\* ---- calculate_change
CallsChange ==
    {[fn |-> "calculate_change", utxo_value |-> a.utxo, send_value |-> a.send,
      fee_rate_sat_per_vbyte |-> a.rate, with_change |-> w, overflow_checks |-> oc] :
        a \in BuilderAmounts, w \in BOOLEAN, oc \in BOOLEAN}

call_calculate_change ==
    /\ call.fn = "calculate_change"
    /\ Returns(calculate_change(call.utxo_value, call.send_value, call.fee_rate_sat_per_vbyte,
                                call.with_change, call.overflow_checks))

\* ---- prepare_unsigned_tx_and_sighash
GoodTxid == HashToString(Leaf(1))
GoodPrevSpk == [hex |-> TRUE, h |-> << "spk", "bridge" >>]

CallsPrepare ==
    {[fn |-> "prepare_unsigned_tx_and_sighash", utxo_txid |-> t, utxo_vout |-> v,
      prev_value |-> a.utxo, prev_spk_hex |-> p, to_address |-> to, send_value |-> a.send,
      fee_rate_sat_per_vbyte |-> a.rate, change_address |-> ch, network_str |-> n,
      overflow_checks |-> oc] :
        t \in {GoodTxid, NotHexString}, v \in {0, 1}, a \in BuilderAmounts,
        p \in {GoodPrevSpk, NotHexString},
        to \in {<< 1, 1, 1 >>, << 3, 3 >>, << 9 >>}, ch \in {BRIDGE_ADDRESS, << 9 >>},
        n \in {"mainnet", "testnet", "signet", "regtest", "bitcoin"}, oc \in BOOLEAN}

call_prepare_unsigned_tx_and_sighash ==
    /\ call.fn = "prepare_unsigned_tx_and_sighash"
    /\ Returns(prepare_unsigned_tx_and_sighash(call.utxo_txid, call.utxo_vout, call.prev_value,
                                          call.prev_spk_hex, call.to_address, call.send_value,
                                          call.fee_rate_sat_per_vbyte, call.change_address,
                                          call.network_str, call.overflow_checks))

\* ---- finalize_signed_tx_from_hex
\* unsigned transactions of one and of two outputs, as the builder makes them
UnsignedTxs ==
    {create_unsigned_tx(GoodTxid, 0, 100000, << 1, 1, 1 >>, send, 10, BRIDGE_ADDRESS,
                        "Testnet", TRUE).val : send \in {50000, 98460}}

TxHexes ==
    {SerializeTx(tx) : tx \in UnsignedTxs}
    \cup {SerializeTx([tx EXCEPT !.input = << >>]) : tx \in UnsignedTxs}
    \cup {[hex |-> FALSE, tx |-> None], [hex |-> TRUE, tx |-> None]}

\* signatures as hex strings: n bytes, the last one `last`
SigBytes(n, last) == [i \in 1 .. n |-> IF i = n THEN last ELSE 7]
SigHexes ==
    {[hex |-> TRUE, bytes |-> SigBytes(n, last)] :
        n \in {0, 1, SigLen - 1, SigLen, SigLen + 1, SigLen + 2}, last \in {0, TapSighashAll, 7}}
    \cup {[hex |-> FALSE, bytes |-> << >>]}

CallsFinalize ==
    {[fn |-> "finalize_signed_tx_from_hex", tx_hex |-> t, sig_hex |-> g] :
        t \in TxHexes, g \in SigHexes}

call_finalize_signed_tx_from_hex ==
    /\ call.fn = "finalize_signed_tx_from_hex"
    /\ Returns(finalize_signed_tx_from_hex(call.tx_hex, call.sig_hex))

\* ---- derive_taproot_address
KeyHexes ==
    {[prefix |-> p, x |-> [g |-> [i \in Ids |-> e], tw |-> 0]] :
        p \in {<< >>, << PrefixEven >>, << PrefixOdd >>, << 4 >>, << PrefixEven, 0 >>},
        e \in 1 .. 2}

NetworkStrings == {"mainnet", "testnet", "signet", "regtest", "bitcoin", "Testnet", ""}

CallsDerive ==
    {[fn |-> "derive_taproot_address", x_only_hex |-> k, network_str |-> n] :
        k \in KeyHexes, n \in NetworkStrings}

call_derive_taproot_address ==
    /\ call.fn = "derive_taproot_address"
    /\ Returns(derive_taproot_address(call.x_only_hex, call.network_str))

\* ---- the specification of the functions on their own
InitFn ==
    /\ DB = [k \in Kinds |-> [i \in Ids |-> None]]
    /\ params = [total |-> 2, min |-> 2]
    /\ epoch = [i \in Ids |-> 0]
    /\ nonceCtr = [i \in Ids |-> 0]
    /\ pkg1 = [i \in Ids |-> None]
    /\ pkg2 = [i \in Ids |-> None]
    /\ pubkp = [i \in Ids |-> None]
    /\ commits = [i \in Ids |-> None]
    /\ shares = [i \in Ids |-> None]
    /\ ret = Ret("start", 0, "Ok", None)
    /\ hist = [i \in Ids |-> 0]
    /\ r2Fresh = [i \in Ids |-> FALSE]
    /\ uses = [i \in Ids |-> 0]
    /\ loaded = None
    /\ NoGuest
    /\ call \in CallsChain \cup CallsInclusion \cup CallsOutputs \cup CallsSum \cup CallsEncode
                \cup CallsChange
                \cup CallsPrepare \cup CallsFinalize \cup CallsDerive
    /\ result = None

NextFn ==
    \/ call_verify_chain_with_crate
    \/ call_verify_tx_inclusion_str
    \/ call_process_transaction_outputs
    \/ call_sum_outputs_to_address
    \/ call_abi_encode_zkp_burn
    \/ call_calculate_change
    \/ call_prepare_unsigned_tx_and_sighash
    \/ call_finalize_signed_tx_from_hex
    \/ call_derive_taproot_address

SpecFn == InitFn /\ [][NextFn]_vars

\* ======================================================== claims on the DKG
Ready(i) == IsSome(DbGet(DB, "keypkg", i)) /\ IsSome(DbGet(DB, "pubkeypkg", i))
Called(op) == ret.op = op
Succeeded(op) == ret.op = op /\ ret.status = "Ok"

\* C4: a dkg_round3 call gets past its record pre-condition only if a
\* dkg_round2 of that identity succeeded after its most recent dkg_round1.
C4_Round3NeedsRound2OfThisRun ==
    (Called("dkg_round3") /\ ret.status # "MissingData") => r2Fresh[ret.id]

\* C5: dkg_round2 (dkg_round3) fails with MissingData and writes nothing when
\* r1_<id> (r2_<id>) is absent, and an identity is Ready only after round 1,
\* round 2 and round 3 succeeded for it in that order.
C5_RoundsGuardedByRecords ==
    /\ [][ /\ (ret'.op = "dkg_round2" /\ ~IsSome(DB["r1"][ret'.id]))
                => (ret'.status = "MissingData" /\ DB' = DB)
           /\ (ret'.op = "dkg_round3" /\ ~IsSome(DB["r2"][ret'.id]))
                => (ret'.status = "MissingData" /\ DB' = DB) ]_vars
    /\ [](\A i \in Ids : Ready(i) => hist[i] = 3)

C5_Witness ==
    /\ Called("dkg_round3") /\ ret.status = "MissingData"
    /\ IsSome(DB["r1"][ret.id])
    /\ \E i \in Ids : hist[i] = 2

\* C7: in a single run of the DKG with every package delivered, each round of
\* each participant succeeds, all participants hold the same group verifying
\* key, and the key dkg_round3 reports is the x-only form of the verifying key
\* of the PublicKeyPackage it returns.
FullR1(i) == [j \in Active \ {i} |-> Get(pkg1[j])]
FullR2(i) == [j \in Active \ {i} |-> Get(pkg2[j])[i]]
SingleRun == \A i \in Ids : epoch[i] <= 1
AllHave(f) == \A i \in Active : IsSome(f[i])

DkgRunSucceedsAndAgrees ==
    /\ (Called("dkg_round1") /\ ret.id \in Active) => ret.status = "Ok"
    /\ (SingleRun /\ AllHave(pkg1)) =>
          \A i \in Active : part2(Get(DB["r1"][i]), FullR1(i)).ok
    /\ (SingleRun /\ AllHave(pkg2)) =>
          \A i \in Active : part3(Get(DB["r2"][i]), FullR1(i), FullR2(i)).ok
    /\ (SingleRun /\ AllHave(pubkp)) =>
          \A i, j \in Active :
             /\ Get(pubkp[i]).vk = Get(pubkp[j]).vk
             /\ Get(DB["keypkg"][i]).vk = Get(pubkp[j]).vk
    /\ Succeeded("dkg_round3") =>
          Get(ret.val).verify_key = [prefix |-> << >>, x |-> Get(ret.val).pubkp.vk]

\* C7 as stated: for any (n >= 2, t <= n)
C7_AnyThresholdUpToTotal ==
    (params.total >= 2 /\ params.min <= params.total) => DkgRunSucceedsAndAgrees

\* C7 amended: for any (n >= 2, 2 <= t <= n)
C7_ThresholdAtLeastTwo ==
    (params.total >= 2 /\ 2 <= params.min /\ params.min <= params.total)
        => DkgRunSucceedsAndAgrees

C7_Witness ==
    /\ params.total = 3 /\ params.min = 2
    /\ SingleRun /\ AllHave(pubkp) /\ \A i \in Active : Ready(i)
    /\ Succeeded("dkg_round3")

\* C10: the verifying key dkg_round3 and init return is 32 bytes long, and
\* init returns the key that dkg_round3 returned to the same identity.
C10_VerifyKeyIsXOnly ==
    /\ Succeeded("dkg_round3") => ByteLen(Get(ret.val).verify_key) = XOnlyLen
    /\ (Succeeded("init") /\ Get(ret.val).ready) =>
          /\ ByteLen(Get(Get(ret.val).verify_key)) = XOnlyLen
          /\ IsSome(pubkp[ret.id]) =>
                Get(Get(ret.val).verify_key)
                    = StripPrefix(SerializeVK(Get(pubkp[ret.id]).vk)).val

\* =================================================== claims on the signing
\* C1: after sign_round1 and one successful sign_round2 of an identity, a
\* second sign_round2 of that identity on the same stored nonces fails.
C1_NoncesSignOnce == \A i \in Ids : uses[i] <= 1

\* C2: a sign_round2 that has loaded the nonces and then fails leaves a store
\* whose nonces_<id> record no longer holds the nonces it loaded.
C2_NoncesConsumedOnFailure ==
    (Called("sign_round2") /\ ret.status = "Panic" /\ IsSome(loaded))
        => DbGet(DB, "nonces", ret.id) # loaded

\* C3: aggregate_signature returns a signature only if that signature verifies
\* against the tweaked group verifying key over the message.
C3_SignatureOnlyIfVerified ==
    Succeeded("aggregate_signature") =>
        /\ Get(ret.val).valid
        /\ Verify(TweakVK(Get(ret.val).pubkey.vk), Get(ret.val).msg, Get(ret.val).sig.sig)

\* an aggregation over shares that do not verify has ended without a signature
C3_Witness ==
    /\ Called("aggregate_signature") /\ ret.status = "Panic"
    /\ Get(ret.val).cause = "InvalidSignatureShare"

\* C6: sign_round1 fails with MissingData and stores nothing when keypkg_<id>
\* is absent, sign_round2 fails with MissingData when keypkg_<id> or
\* nonces_<id> is absent, and an identity has produced a share only after its
\* dkg_round3 and its sign_round1 have stored their records.
C6_SigningGatedOnRecords ==
    /\ [][ /\ (ret'.op = "sign_round1" /\ ~IsSome(DB["keypkg"][ret'.id]))
                => (ret'.status = "MissingData" /\ DB' = DB)
           /\ (ret'.op = "sign_round2"
                 /\ (~IsSome(DB["keypkg"][ret'.id]) \/ ~IsSome(DB["nonces"][ret'.id])))
                => (ret'.status = "MissingData" /\ shares' = shares) ]_vars
    /\ [](\A i \in Ids : IsSome(shares[i]) =>
             /\ hist[i] = 3 /\ IsSome(DB["keypkg"][i])
             /\ nonceCtr[i] >= 1 /\ IsSome(DB["nonces"][i]))

C6_Witness ==
    /\ Called("sign_round2") /\ ret.status = "MissingData"
    /\ IsSome(DB["keypkg"][ret.id])
    /\ \E i \in Ids : IsSome(shares[i])

\* C8: for a set S of exactly min_signers identities that completed the DKG,
\* each holding the share its sign_round2 made on the signing package of the
\* commitments of exactly S and the message, aggregate_signature on those
\* shares and commitments returns a 64-byte signature that verifies under the
\* tweaked group verifying key over the message.
SignedBy(S, m) ==
    /\ \A i \in S : hist[i] = 3 /\ IsSome(commits[i]) /\ IsSome(shares[i])
    /\ \A i \in S : Get(shares[i]).pkg = SigningPackage([j \in S |-> Get(commits[j])], m)

C8_ThresholdSigningSound ==
    \A S \in SUBSET Active : \A m \in Msgs : \A h \in Coordinator :
        (Cardinality(S) = params.min /\ SignedBy(S, m)) =>
            LET r == aggregate_signature_result(m, [j \in S |-> Get(shares[j])],
                                                [j \in S |-> Get(commits[j])], Get(pubkp[h]))
            IN /\ r.status = "Ok"
               /\ Get(r.val).sig.len = SigLen
               /\ Verify(TweakVK(Get(pubkp[h]).vk), m, Get(r.val).sig.sig)

C8_Witness ==
    /\ Succeeded("aggregate_signature")
    /\ params.min < params.total
    /\ \E S \in SUBSET Active :
          /\ Cardinality(S) = params.min /\ SignedBy(S, Get(ret.val).msg)
          /\ DOMAIN Get(ret.val).sig.sig.z = S

\* C9: every share is made under the group key tweaked exactly once, and an
\* aggregated signature verifies under the output key of the address derived
\* from the raw (x-only, untweaked) group verifying key.
C9_TweakConsistency ==
    /\ \A i \in Ids : IsSome(shares[i]) =>
          Get(shares[i]).key = TweakVK(Get(DB["keypkg"][i]).vk)
    /\ Succeeded("aggregate_signature") =>
          LET raw == StripPrefix(SerializeVK(Get(ret.val).pubkey.vk)).val
              addr == derive_taproot_address(raw, "testnet").val
          IN /\ addr.output_key.tw = 1
             /\ Verify(addr.output_key, Get(ret.val).msg, Get(ret.val).sig.sig)

C9_Witness ==
    /\ Succeeded("aggregate_signature")
    /\ \E i \in Ids : IsSome(shares[i]) /\ Get(shares[i]).key.tw = 1

\* ================================== claims on the store and on the errors
\* C11: init returns ready = true exactly when keypkg_<id> and pubkeypkg_<id>
\* both exist, returns an empty verifying key and an empty PublicKeyPackage
\* when not ready, returns the identity in both cases, and leaves the store
\* as it was.
C11_InitReadyIffBothRecords ==
    [][\A u \in Labels : init(u) =>
          /\ DB' = DB
          /\ u \in Ids =>
               /\ ret'.status = "Ok"
               /\ Get(ret'.val).ready
                    <=> (IsSome(DB["keypkg"][u]) /\ IsSome(DB["pubkeypkg"][u]))
               /\ ~Get(ret'.val).ready =>
                    (Get(ret'.val).verify_key = None /\ Get(ret'.val).pubkp = None)
               /\ Get(ret'.val).id = u ]_vars

\* init has answered not ready on a store that holds the identity's KeyPackage
C11_Witness ==
    /\ Succeeded("init") /\ ~Get(ret.val).ready
    /\ IsSome(DB["keypkg"][ret.id]) /\ ~IsSome(DB["pubkeypkg"][ret.id])
    /\ \E j \in Ids : Ready(j)

\* C12: after a successful dkg_round2 of an identity its r1_<id> record is no
\* longer present.
C12_Round1SecretDestroyed ==
    Succeeded("dkg_round2") => ~IsSome(DB["r1"][ret.id])

\* C13: once keypkg_<id> has been written, no host call changes its value.
C13_KeyPackageNeverMutated ==
    [][\A i \in Ids : IsSome(DB["keypkg"][i]) => DB'["keypkg"][i] = DB["keypkg"][i]]_vars

\* C14: a host call that ends with an identifier, hex or serialization error
\* leaves every store key as it was, and no state of the store holds
\* keypkg_<id> without pubkeypkg_<id>.
C14_FailedCallLeavesStore ==
    /\ [][(ret' # ret /\ ret'.status \in {"InvalidIdentifierU16", "Hex", "Serde"})
             => DB' = DB]_vars
    /\ [](\A i \in Ids : IsSome(DB["keypkg"][i]) => IsSome(DB["pubkeypkg"][i]))

\* C15: no host call ends in a panic: every failure is one of the error kinds.
C15_FailuresAreErrorValues ==
    ret.status \in {"Ok", "Sled", "Frost", "Hex", "Serde", "Json",
                    "InvalidIdentifierU16", "State", "MissingData"}

\* C16: dkg_round1 with self_u16 = 0 fails with InvalidIdentifierU16 and
\* writes no record.
C16_Round1RejectsZero ==
    [][dkg_round1(0) => (ret'.status = "InvalidIdentifierU16" /\ DB' = DB)]_vars

\* dkg_round1(0) has been refused on a store that holds round-1 secrets
C16_Witness ==
    /\ Called("dkg_round1") /\ ret.id = 0 /\ ret.status = "InvalidIdentifierU16"
    /\ \E i \in Ids : IsSome(DB["r1"][i])

\* ===================================================== claims on the guests
Ended == pc \in {"done", "aborted"}

\* the verifications of a bundle: the raw transaction parses, its txid is
\* included under the merkle root of the first block, the chain check is OK
AllChecksPass(b) ==
    LET tx == DecodeTx(b.bit_tx_info.raw_tx_hex) IN
    /\ tx.ok
    /\ b.chains.blocks # << >>
    /\ LET r == verify_tx_inclusion_str(HashToString(compute_txid(tx.val)), b.merkle_proof,
                                        b.chains.blocks[1].merkle_root) IN
       r.ok /\ r.val
    /\ verify_chain_with_crate(b.chains).ok

\* C17: a guest has committed only if the raw transaction parsed, the
\* inclusion check returned true and the chain check returned OK; an
\* execution on a bundle with a failing check ends aborted with nothing
\* committed.
C17_CommitOnlyIfVerified ==
    /\ committed # << >> => AllChecksPass(bundle)
    /\ (Ended /\ ~AllChecksPass(bundle)) => (pc = "aborted" /\ committed = << >>)

\* the mint guest has committed on a two-level merkle proof
C17_Witness ==
    /\ prog = "mint" /\ pc = "done" /\ committed # << >>
    /\ Len(bundle.merkle_proof.siblings) = 2

\* the memo of the bundle's transaction, as the deposit analyzer returns it
MemoOf(b) ==
    process_transaction_outputs(b.bit_tx_info.raw_tx_hex, BRIDGE_ADDRESS, NETWORK_TYPE).val.memo

MemoIsChecksummedAddress(b) ==
    /\ DecodeTx(b.bit_tx_info.raw_tx_hex).ok
    /\ IsSome(MemoOf(b))
    /\ from_utf8(Get(MemoOf(b))).ok
    /\ Get(MemoOf(b)) \in {"0xAbC1", "0xDe02"}

\* C18: the mint guest has committed only if the memo is present, is UTF-8
\* and is a checksummed EVM address, the committed depositer address is that
\* address, and an execution on any other memo ends aborted with nothing
\* committed.
C18_MintNeedsChecksummedMemo ==
    prog = "mint" =>
        /\ committed # << >> =>
              /\ MemoIsChecksummedAddress(bundle)
              /\ committed[1][2] = (IF Get(MemoOf(bundle)) = "0xAbC1"
                                    THEN << "evm", 1 >> ELSE << "evm", 2 >>)
        /\ (Ended /\ ~MemoIsChecksummedAddress(bundle)) =>
              (pc = "aborted" /\ committed = << >>)

C18_Witness ==
    /\ prog = "mint" /\ pc = "done"
    /\ committed[1][2] = << "evm", 2 >>
    /\ Get(MemoOf(bundle)) = "0xDe02"

\* the sum of the values of the outputs that pay the script `spk`, as far as
\* the u64 word holds it
RECURSIVE SumPaying(_, _)
SumPaying(outputs, spk) ==
    IF outputs = << >> THEN 0
    ELSE LET rest == SumPaying(Tail(outputs), spk)
             here == IF Head(outputs).script_pubkey.t = "addr"
                        /\ Head(outputs).script_pubkey.a = spk
                     THEN Head(outputs).value ELSE 0 IN
         IF here + rest > U64Max THEN U64Max ELSE here + rest

\* C19: the burn guest ends aborted with nothing committed when
\* burner_btc_address is absent; what it commits carries the sum of the
\* outputs that pay that address (an address of the guest's network) and
\* the address string itself.
C19_BurnNeedsBurnerAddress ==
    prog = "burn" =>
        /\ (Ended /\ ~IsSome(bundle.burner_btc_address)) =>
              (pc = "aborted" /\ committed = << >>)
        /\ committed # << >> =>
              /\ IsSome(bundle.burner_btc_address)
              /\ LET s == Get(bundle.burner_btc_address)
                     tx == DecodeTx(bundle.bit_tx_info.raw_tx_hex).val IN
                 /\ \E e \in AddressBook : e.str = s /\ e.net = NETWORK_TYPE
                 /\ from_be_slice(SubSeq(committed[1], SlotLen + 1, 2 * SlotLen)) =
                       SumPaying(tx.output, (CHOOSE e \in AddressBook : e.str = s).spk)
                 /\ from_be_slice(SubSeq(committed[1], 3 * SlotLen + 1, 4 * SlotLen)) = Len(s)
                 /\ SubSeq(committed[1], 4 * SlotLen + 1, 4 * SlotLen + Len(s)) = s

C19_Witness ==
    /\ prog = "burn" /\ pc = "done"
    /\ from_be_slice(SubSeq(committed[1], SlotLen + 1, 2 * SlotLen)) = 2
    /\ bundle.burner_btc_address = Some(<< 2, 2, 2 >>)

\* C20: a guest reads one bundle, commits at most one byte string, exactly
\* one when it ends without abort and none when it aborts, and the commit
\* comes last, after the inclusion check and then the chain check.
C20_OneReadOneCommitLast ==
    /\ reads <= 1 /\ (pc # "start" => reads = 1)
    /\ Len(committed) <= 1
    /\ pc = "aborted" => committed = << >>
    /\ committed # << >> => pc = "done"
    /\ pc = "done" =>
          /\ Len(committed) = 1
          /\ Len(trace) >= 3
          /\ SubSeq(trace, Len(trace) - 2, Len(trace)) = << "inclusion", "chain", "commit" >>

C20_Witness ==
    /\ prog = "burn" /\ pc = "done"
    /\ trace = << "read", "address", "parse", "outputs", "inclusion", "chain", "commit" >>

\* ============================================= claims on the guests' checks
Returned(fn) == call.fn = fn /\ IsSome(result)

\* the hash of the header a block of the bundle describes
HeaderHashOf(b) ==
    << "bh", b.version, b.parent_hash.h, b.merkle_root.h, b.timestamp, b.difficulty, b.nonce >>

\* six blocks, each with the claimed hash its fields give, each but the
\* first on the computed hash of the one before
ChainIsConsistent(chain) ==
    /\ Len(chain.blocks) = 6
    /\ \A i \in 1 .. Len(chain.blocks) :
          LET b == chain.blocks[i] IN
          /\ b.block_hash.hex /\ b.parent_hash.hex /\ b.merkle_root.hex
          /\ b.block_hash.h = HeaderHashOf(b)
    /\ \A i \in 2 .. Len(chain.blocks) :
          chain.blocks[i].parent_hash.h = HeaderHashOf(chain.blocks[i - 1])

\* C21: verify_chain_with_crate returns OK exactly on the chains of six
\* blocks in which every block's computed hash is its claimed hash and every
\* block but the first names the computed hash of the block before as its
\* parent; it rejects every other chain.
C21_ChainAcceptedIffConsistent ==
    Returned("verify_chain_with_crate") => (Get(result).ok <=> ChainIsConsistent(call.chain))

\* a consistent chain on another first parent hash has been accepted
C21_Witness ==
    /\ Returned("verify_chain_with_crate") /\ Get(result).ok
    /\ call.chain.blocks[1].parent_hash = HashToString(Leaf(0))
\* C22 as amended: on the authentic path of a leaf the verifier returns true;
\* with any sibling replaced, with pos - 1, with a sibling dropped or added, or
\* against another root it returns false; with pos + 1 it returns false
\* unless the leaf is the last of an odd number of transactions (a single
\* transaction included), where the leaf has no sibling or is its own, and
\* then it returns true.
LastOfOdd == call.idx = call.L - 1 /\ call.L % 2 = 1

C22_MerkleProofUpToOwnSibling ==
    (Returned("verify_tx_inclusion_str") /\ call.how.kind \notin {"not_hex", "high_bits"}) =>
        /\ Get(result).ok
        /\ Get(result).val <=>
              \/ call.how.kind = "authentic"
              \/ call.how.kind = "pos+1" /\ LastOfOdd

\* the leaf at index 2 of three transactions, verified with pos = 3
C22_Witness ==
    /\ Returned("verify_tx_inclusion_str") /\ Get(result) = Ok(TRUE)
    /\ call.L = 3 /\ call.idx = 2 /\ call.how.kind = "pos+1"

\* C22: the verifier returns true if and only if the sibling list is the
\* authentic path for the leaf and index; replacing any sibling or changing
\* pos by +1 or -1 makes it return false, for every number of transactions.
C22_MerkleProofExact ==
    (Returned("verify_tx_inclusion_str") /\ call.how.kind # "not_hex") =>
        /\ Get(result).ok
        /\ Get(result).val <=> call.how.kind = "authentic"
\* the outputs of the transaction of the call, and the OP_RETURN outputs
\* among them that carry a pushed data item
OutputsOfCall == Get(call.raw_hex.tx).output
IsOpReturn(o) == o.script_pubkey.t = "opret"
CarriesMemo(o) == IsOpReturn(o) /\ IsSome(o.script_pubkey.push)

\* C23 as amended: the memo the analyzer returns is the payload of the first
\* OP_RETURN output that carries a pushed data item, in output order; an
\* OP_RETURN output without one leaves the memo to a later output, and the
\* memo is absent when no OP_RETURN output carries one.
C23_MemoOfFirstPush ==
    (Returned("process_transaction_outputs") /\ Get(result).ok) =>
        LET outs == OutputsOfCall
            memo == Get(result).val.memo IN
        IF \E k \in 1 .. Len(outs) : CarriesMemo(outs[k])
        THEN \E k \in 1 .. Len(outs) :
                /\ CarriesMemo(outs[k])
                /\ \A j \in 1 .. k - 1 : ~CarriesMemo(outs[j])
                /\ memo = outs[k].script_pubkey.push
        ELSE memo = None

\* two OP_RETURN outputs with different payloads: the first one is the memo
C23_Witness ==
    /\ Returned("process_transaction_outputs") /\ Get(result).ok
    /\ Len(OutputsOfCall) = 3
    /\ OutputsOfCall[2] = OpReturn(Some("0xDe02")) /\ OutputsOfCall[3] = OpReturn(Some("0xAbC1"))
    /\ Get(result).val.memo = Some("0xDe02")

\* C23: the memo is the payload of the first OP_RETURN output; no later
\* OP_RETURN output supplies or changes it, and it is absent when the first
\* OP_RETURN output carries no pushed data item.
C23_MemoOfFirstOpReturn ==
    (Returned("process_transaction_outputs") /\ Get(result).ok) =>
        LET outs == OutputsOfCall
            memo == Get(result).val.memo IN
        IF \E k \in 1 .. Len(outs) : IsOpReturn(outs[k])
        THEN \E k \in 1 .. Len(outs) :
                /\ IsOpReturn(outs[k])
                /\ \A j \in 1 .. k - 1 : ~IsOpReturn(outs[j])
                /\ memo = outs[k].script_pubkey.push
        ELSE memo = None
\* ================================== claims on the transaction builder
\* a call of the builder whose strings are all well formed: a txid, a previous
\* script in hex, a network of the set, and addresses valid on that network
WellFormedPrepare ==
    /\ call.utxo_txid = GoodTxid /\ call.prev_spk_hex = GoodPrevSpk
    /\ call.network_str \in {"testnet", "signet"}
    /\ call.to_address = << 1, 1, 1 >> /\ call.change_address = BRIDGE_ADDRESS

\* the transaction a successful call returned
BuiltTx == Get(Get(result).val.unsigned_tx_hex.tx)

\* utxo - send - 154 * fee_rate, as a mathematical integer
Margin == call.prev_value - call.send_value - 154 * call.fee_rate_sat_per_vbyte

\* C24: with utxo = send + 154 * fee_rate + d, the builder produces one output
\* (recipient, send) when 0 <= d < 546, so that the fee is utxo - send, and
\* two outputs, the recipient with send and the change with d, when d >= 546;
\* a call with well-formed strings and d >= 0 does produce the transaction.
C24_FeeAndDustPolicy ==
    (Returned("prepare_unsigned_tx_and_sighash") /\ Margin >= 0) =>
        /\ WellFormedPrepare => Get(result).ok
        /\ Get(result).ok =>
              /\ Margin < 546 =>
                    BuiltTx.output = << PayTo("burner", call.send_value) >>
              /\ Margin >= 546 =>
                    BuiltTx.output = << PayTo("burner", call.send_value),
                                        PayTo("bridge", Margin) >>

\* one output at d = 545, on a fee rate that is not zero
C24_Witness ==
    /\ Returned("prepare_unsigned_tx_and_sighash") /\ Get(result).ok
    /\ Margin = 545 /\ call.fee_rate_sat_per_vbyte = 10
    /\ Len(BuiltTx.output) = 1

E3Call(send) ==
    /\ Returned("prepare_unsigned_tx_and_sighash") /\ WellFormedPrepare
    /\ call.prev_value = 100000 /\ call.fee_rate_sat_per_vbyte = 10
    /\ call.send_value = send

C26_InsufficientExactly ==
    (Returned("prepare_unsigned_tx_and_sighash") /\ WellFormedPrepare) =>
        IF Margin < 0 THEN Get(result).err = "Insufficient" ELSE Get(result).ok
\* a call of the finalizer on a transaction of the builder, with a signature
\* that is a hex string
FinalizeOnBuiltTx ==
    /\ Returned("finalize_signed_tx_from_hex")
    /\ call.tx_hex \in {SerializeTx(tx) : tx \in UnsignedTxs}
    /\ call.sig_hex.hex

\* the transaction a successful finalization returned, and the one it was given
FinalTx == Get(Get(result).val.tx)
GivenTx == Get(call.tx_hex.tx)

\* C27: the finalizer accepts a signature of 64 bytes, accepts one of 65 bytes
\* whose last byte is 0x01 and puts it in the witness unchanged, and fails
\* with SigLength for every other length.
C27_SignatureLengths ==
    FinalizeOnBuiltTx =>
        LET sig == call.sig_hex.bytes IN
        IF Len(sig) = 64 THEN Get(result).ok
        ELSE IF Len(sig) = 65 /\ sig[65] = 1
        THEN Get(result).ok /\ FinalTx.input[1].witness = << sig >>
        ELSE Get(result).err = "SigLength"

C29_SameNetworkSet ==
    /\ Returned("derive_taproot_address") =>
          /\ Get(result).err = "InvalidNetwork"
                => call.network_str \notin {"mainnet", "testnet", "signet", "regtest"}
          /\ Get(result).ok =>
                Get(result).val.hrp = (IF call.network_str = "mainnet" THEN "bc" ELSE "tb")
          /\ (call.network_str \in {"mainnet", "testnet", "signet", "regtest"}
              /\ call.x_only_hex.prefix \in {<< >>, << 2 >>, << 3 >>}) => Get(result).ok
    /\ Returned("prepare_unsigned_tx_and_sighash") =>
          (Get(result).err = "InvalidNetwork"
              <=> call.network_str \notin {"mainnet", "testnet", "signet", "regtest"})

\* ============================== claims on the encoding of the burn values
\* slot k of the encoded bytes, as a number
SlotOf(bytes, k) == from_be_slice(SubSeq(bytes, 32 * k + 1, 32 * k + 32))

\* C30: abi_encode_zkp_burn emits slot 0 = 0x60, slot 1 = amount, slot 2 =
\* is_valid as 0 or 1, slot 3 = the byte length of the address, then the bytes
\* of the address padded with zeros to a 32-byte boundary; the total length
\* is 128 + ceil(len / 32) * 32; and the host decoder recovers the address,
\* the amount and is_valid from those bytes.
C30_BurnEncodingRoundTrip ==
    Returned("abi_encode_zkp_burn") =>
        LET bytes == Get(result)
            addr == call.burner_btc_address
            len == Len(addr) IN
        /\ Len(bytes) = 128 + ((len + 31) \div 32) * 32
        /\ Len(bytes) >= 128 =>
              /\ SlotOf(bytes, 0) = 96
              /\ SlotOf(bytes, 1) = call.amount
              /\ SlotOf(bytes, 2) = (IF call.is_valid THEN 1 ELSE 0)
              /\ SlotOf(bytes, 3) = len
        /\ \A i \in 129 .. Len(bytes) :
              bytes[i] = (IF i - 128 <= len THEN addr[i - 128] ELSE 0)
        /\ decode_output(bytes) =
              Ok([btc_addr |-> Ok(addr), amount |-> call.amount, is_valid |-> call.is_valid])

\* an address of 33 bytes, which takes two slots, with an amount of three bytes
C30_Witness ==
    /\ Returned("abi_encode_zkp_burn")
    /\ Len(call.burner_btc_address) = 33 /\ call.amount = 65543 /\ call.is_valid
    /\ Len(Get(result)) = 192
\* ================================ claims on the chain check's report
BlockParses(b) == b.block_hash.hex /\ b.parent_hash.hex /\ b.merkle_root.hex
HashFails(blocks, i) == blocks[i].block_hash.h # HeaderHashOf(blocks[i])
LinkFails(blocks, i) == i >= 2 /\ blocks[i].parent_hash.h # HeaderHashOf(blocks[i - 1])
BlockFails(blocks, i) ==
    ~BlockParses(blocks[i]) \/ HashFails(blocks, i) \/ LinkFails(blocks, i)

\* the chain of the call with the nonce of blocks[3] (the fourth block) put back
NonceOfBlock3Restored == [blocks |-> [call.chain.blocks EXCEPT ![4].nonce = @ - 1]]

\* C32: a rejected chain of six blocks is rejected at its first failing
\* block: the index reported is the least i at which block i's computed hash
\* is not its claimed hash or (for i >= 1) its parent is not the computed hash
\* of block i - 1, the mismatch of the hash being reported when both fail at
\* i; a valid chain with only the nonce of blocks[3] changed is rejected at
\* index 3.  (A block whose strings are no hashes fails with the parse error.)
C32_FirstFailingBlockReported ==
    (Returned("verify_chain_with_crate") /\ Len(call.chain.blocks) = 6) =>
        LET blocks == call.chain.blocks
            failing == {i \in 1 .. 6 : BlockFails(blocks, i)} IN
        /\ ~Get(result).ok <=> failing # {}
        /\ failing # {} =>
              LET first == CHOOSE i \in failing : \A j \in failing : i <= j IN
              /\ ~Get(result).ok
              /\ ~Get(result).ok => Get(result).err.index = first - 1
              /\ ~Get(result).ok =>
                    Get(result).err.kind =
                        (IF ~BlockParses(blocks[first]) THEN "Hex"
                         ELSE IF HashFails(blocks, first) THEN "HashMismatch"
                         ELSE "ParentMismatch")
        /\ ChainIsConsistent(NonceOfBlock3Restored) =>
              /\ ~Get(result).ok
              /\ ~Get(result).ok => Get(result).err = [kind |-> "HashMismatch", index |-> 3]

\* the nonce of blocks[3] was changed and the chain was rejected at index 3
C32_Witness ==
    /\ Returned("verify_chain_with_crate") /\ Len(call.chain.blocks) = 6
    /\ ChainIsConsistent(NonceOfBlock3Restored)
    /\ ~Get(result).ok
\* ===================================== claims on the merkle recomputation
\* the hash after the first n siblings: sibling n is joined on the right
\* when bit n - 1 of pos is 0 and on the left when it is 1
RECURSIVE HashAfter(_, _, _, _)
HashAfter(txid, siblings, pos, n) ==
    IF n = 0 THEN txid
    ELSE LET h == HashAfter(txid, siblings, pos, n - 1)
             s == siblings[n].h IN
         IF (pos \div TwoTo(n - 1)) % 2 = 0 THEN << "H", h, s >> ELSE << "H", s, h >>

AllHex(call_) ==
    /\ call_.tx_id_str.hex /\ call_.target_root_str.hex
    /\ \A k \in 1 .. Len(call_.merkle_proof.siblings) : call_.merkle_proof.siblings[k].hex

\* C33: starting from h = txid, for each sibling s in list order h becomes
\* H(h || s) when the current pos is even and H(s || h) when it is odd, and
\* pos is shifted right by one; the result of the verifier is (final h =
\* target root), and (txid = target root) with no sibling; with pos = 1 and
\* one sibling the computed root is H(sibling || leaf).
C33_MerkleFoldAsSpecified ==
    (Returned("verify_tx_inclusion_str") /\ AllHex(call)) =>
        LET p == call.merkle_proof
            n == Len(p.siblings) IN
        /\ Get(result) = Ok(HashAfter(call.tx_id_str.h, p.siblings, p.pos, n)
                                = call.target_root_str.h)
        /\ n = 0 => Get(result) = Ok(call.tx_id_str.h = call.target_root_str.h)
        /\ (n = 1 /\ p.pos = 1) =>
              Get(result) = Ok(<< "H", p.siblings[1].h, call.tx_id_str.h >>
                                  = call.target_root_str.h)

\* a proof of three siblings at pos = 3 (bits 1, 1, 0) was verified
C33_Witness ==
    /\ Returned("verify_tx_inclusion_str") /\ AllHex(call)
    /\ Len(call.merkle_proof.siblings) = 3 /\ call.merkle_proof.pos = 3
    /\ Get(result) = Ok(TRUE)
\* ================================================ claims on the totals
\* the sum, as a mathematical integer, of the outputs whose script is the
\* address spk
RECURSIVE SumOfTargetOutputs(_, _)
SumOfTargetOutputs(outputs, spk) ==
    IF outputs = << >> THEN 0
    ELSE (IF Head(outputs).script_pubkey = [t |-> "addr", a |-> spk, push |-> None]
          THEN Head(outputs).value ELSE 0)
         + SumOfTargetOutputs(Tail(outputs), spk)

CappedAtWord(n) == IF n > U64Max THEN U64Max ELSE n

\* C34: the total of the analyzer (mint) and of the sum over the outputs
\* (burn) is the least of the greatest word and the sum of the values of the
\* outputs whose script decodes to the target address; OP_RETURN outputs,
\* outputs whose script is no address and outputs to other addresses add
\* nothing, and the addition does not wrap around.
C34_TotalIsSaturatingSum ==
    /\ (Returned("process_transaction_outputs") /\ Get(result).ok) =>
          Get(result).val.total = CappedAtWord(SumOfTargetOutputs(OutputsOfCall, "bridge"))
    /\ (Returned("sum_outputs_to_address") /\ Get(result).ok) =>
          Get(result).val =
              CappedAtWord(SumOfTargetOutputs(OutputsOfCall,
                              IF call.target_address_str = BRIDGE_ADDRESS
                              THEN "bridge" ELSE "burner"))

\* three outputs to the target whose sum is above the greatest word
C34_Witness ==
    /\ Returned("sum_outputs_to_address") /\ Get(result).ok
    /\ call.target_address_str = BRIDGE_ADDRESS
    /\ OutputsOfCall = << PayTo("bridge", 2), PayTo("bridge", 2), PayTo("bridge", 2) >>
    /\ Get(result).val = U64Max
\* ============================= claims on the shape of the transaction
\* C36: the unsigned transaction has version 2, locktime 0, exactly one input
\* that spends (utxo_txid, utxo_vout) with an empty scriptSig, the sequence
\* 0xFFFFFFFF and an empty witness, and one or two outputs, the recipient's
\* first with exactly send_value, the change after it.
C36_KeySpendShape ==
    (Returned("prepare_unsigned_tx_and_sighash") /\ Get(result).ok) =>
        /\ BuiltTx.version = 2
        /\ BuiltTx.lock_time = 0
        /\ BuiltTx.input =
              << [previous_output |-> [txid |-> call.utxo_txid.h, vout |-> call.utxo_vout],
                  script_sig |-> << >>, sequence |-> "0xFFFFFFFF", witness |-> << >>] >>
        /\ Len(BuiltTx.output) \in {1, 2}
        /\ BuiltTx.output[1] = PayTo("burner", call.send_value)
        /\ Len(BuiltTx.output) = 2 => BuiltTx.output[2].script_pubkey = PayTo("bridge", 0).script_pubkey

\* a transaction of two outputs that spends output 1 of the funding transaction
C36_Witness ==
    /\ Returned("prepare_unsigned_tx_and_sighash") /\ Get(result).ok
    /\ call.utxo_vout = 1
    /\ Len(BuiltTx.output) = 2
\* ======================================== claims on the high bits of pos
\* C37: the verifier reads only the low len(siblings) bits of pos: it gives
\* for pos + k * 2^len(siblings) what it gives for pos; no check rejects a
\* pos that is not below 2^len(siblings); and with no sibling every pos is
\* accepted when the txid is the root.
C37_OnlyLowBitsOfPos ==
    Returned("verify_tx_inclusion_str") =>
        LET p == call.merkle_proof
            n == Len(p.siblings) IN
        /\ \A k \in 1 .. 3 :
              verify_tx_inclusion_str(call.tx_id_str,
                                      [p EXCEPT !.pos = p.pos + k * TwoTo(n)],
                                      call.target_root_str) = Get(result)
        /\ AllHex(call) =>
              /\ Get(result).ok
              /\ Get(result) = Ok(HashAfter(call.tx_id_str.h, p.siblings, p.pos % TwoTo(n), n)
                                      = call.target_root_str.h)
              /\ (n = 0 /\ call.tx_id_str = call.target_root_str) => Get(result) = Ok(TRUE)

\* the authentic path of two siblings or more, verified at pos + 2^len
C37_Witness ==
    /\ Returned("verify_tx_inclusion_str") /\ Get(result) = Ok(TRUE)
    /\ call.how = [kind |-> "high_bits", k |-> 1]
    /\ Len(call.merkle_proof.siblings) >= 2
    /\ call.merkle_proof.pos >= TwoTo(Len(call.merkle_proof.siblings))
\* ================================= claims on the arithmetic of the change
\* C38: with fee = 154 * fee_rate as a mathematical integer, calculate_change
\* returns Some(c) only if send_value + c + fee = utxo_value and c >= 546,
\* returns None only if 0 <= utxo_value - send_value - fee < 546, and fails
\* otherwise; no product or sum that wraps around the word leads to an
\* accepted result.
C38_ValueConservation ==
    (Returned("calculate_change") /\ call.with_change) =>
        LET fee == 154 * call.fee_rate_sat_per_vbyte
            rest == call.utxo_value - call.send_value - fee IN
        /\ (Get(result).ok /\ Get(result).val # None) =>
              /\ call.send_value + Get(Get(result).val) + fee = call.utxo_value
              /\ Get(Get(result).val) >= 546
        /\ (Get(result).ok /\ Get(result).val = None) => (0 <= rest /\ rest < 546)
        /\ rest < 0 => ~Get(result).ok
\* ==================================== claims on the committed amount
\* the script the guest sums the outputs to: the bridge's for mint, the
\* burner's for burn
BurnerIsAnAddress ==
    /\ IsSome(bundle.burner_btc_address)
    /\ \E e \in AddressBook : e.str = Get(bundle.burner_btc_address) /\ e.net = NETWORK_TYPE

TargetScript ==
    IF prog = "mint" THEN "bridge"
    ELSE (CHOOSE e \in AddressBook : e.str = Get(bundle.burner_btc_address)).spk

\* every check but one on the amount passes for the bundle
OtherChecksPass ==
    /\ AllChecksPass(bundle)
    /\ prog = "mint" => MemoIsChecksummedAddress(bundle)
    /\ prog = "burn" => BurnerIsAnAddress

CommittedAmount(v) ==
    IF prog = "mint" THEN v[3] ELSE from_be_slice(SubSeq(v, 33, 64))
CommittedIsValid(v) ==
    IF prog = "mint" THEN v[4] ELSE from_be_slice(SubSeq(v, 65, 96))

\* C40: every public value a guest commits carries is_valid = true, and the
\* amount is not checked against zero: when every other check passes and no
\* output of the transaction pays the target address, the guest does not
\* abort and commits the amount 0 with is_valid = true.
C40_ZeroAmountCommitted ==
    /\ \A k \in 1 .. Len(committed) : CommittedIsValid(committed[k]) = 1
    /\ (prog \in {"mint", "burn"} /\ Ended /\ OtherChecksPass) =>
          (SumOfTargetOutputs(DecodeTx(bundle.bit_tx_info.raw_tx_hex).val.output,
                              TargetScript) = 0
           => /\ pc = "done"
              /\ Len(committed) = 1
              /\ Len(committed) = 1 =>
                    (CommittedAmount(committed[1]) = 0 /\ CommittedIsValid(committed[1]) = 1))

\* the mint guest has committed on a transaction that pays the bridge nothing
C40_Witness ==
    /\ prog = "mint" /\ pc = "done" /\ Len(committed) = 1
    /\ committed[1][3] = 0 /\ committed[1][4] = 1
    /\ \A k \in 1 .. Len(DecodeTx(bundle.bit_tx_info.raw_tx_hex).val.output) :
          DecodeTx(bundle.bit_tx_info.raw_tx_hex).val.output[k].script_pubkey.a # "bridge"

\* ------------------------------------------------------------------ C39
\* C39: overlapping signing sessions of one identity are last-writer-wins.
\* Once sign_round1 has run again, the nonces stored for the identity are
\* those of its latest call; a sign_round2 that succeeds was given a signing
\* package whose commitment for the identity is the latest call's, and its
\* share is made from the latest call's nonces, never from an earlier call's.
C39_LastWriterWins ==
    /\ \A i \in Ids :
         nonceCtr[i] >= 1 =>
           DB["nonces"][i] = Some([of |-> i, k |-> nonceCtr[i]])
    /\ Succeeded("sign_round2") =>
         LET share == Get(ret.val) IN
         /\ ret.id \in DOMAIN share.pkg.commitments
         /\ share.pkg.commitments[ret.id] = [of |-> ret.id, k |-> nonceCtr[ret.id]]
         /\ share.nonces = [of |-> ret.id, k |-> nonceCtr[ret.id]]
         /\ share.nonces.k # nonceCtr[ret.id] - 1

\* sign_round2 has made a share after the identity's second sign_round1
C39_Witness ==
    /\ Succeeded("sign_round2")
    /\ nonceCtr[ret.id] = 2
    /\ Get(ret.val).nonces.k = 2

\* ------------------------------------------------------------------ C35
\* the payload of the last pair of the list that names identifier j
LastPayload(list, j) ==
    LET x == CHOOSE x \in DOMAIN list :
               /\ list[x].id = j
               /\ \A y \in DOMAIN list : list[y].id = j => y <= x
    IN list[x].payload

\* the list cut down to the last pair of each identifier, by ascending identifier
LastPairs(list) ==
    PairsOf([j \in {list[x].id : x \in DOMAIN list} |-> LastPayload(list, j)])

\* C35: the results of dkg_round2, dkg_round3, sign_round2 and
\* aggregate_signature depend only on the map from identifier to payload that
\* the list arguments stand for, not on the order of the pairs, and of the
\* pairs of a repeated identifier the last one counts: what a call does and
\* returns on its lists is what it does and returns on the lists cut down to
\* the last pair of each identifier, in ascending order.
C35_PeerListsAreMaps ==
    [][ /\ call.fn = "dkg_round2" =>
             dkg_round2(call.self_id, LastPairs(call.received_pkgs_hex))
        /\ call.fn = "dkg_round3" =>
             dkg_round3(call.self_id, LastPairs(call.r1_pkgs_hex),
                        LastPairs(call.r2_pkgs_hex))
        /\ call.fn = "sign_round2" =>
             sign_round2(call.self_id, call.message_hex, LastPairs(call.commitments))
        /\ call.fn = "aggregate_signature" =>
             aggregate_signature(call.message_hex, LastPairs(call.sig_shares),
                                 LastPairs(call.commitments), call.pubkey_hex)
      ]_vars

\* dkg_round3 has succeeded on a list of round-1 packages that is out of
\* order and names an identifier twice, with different payloads
C35_Witness ==
    /\ call.fn = "dkg_round3"
    /\ ret.op = "dkg_round3" /\ ret.status = "Ok"
    /\ \E x, y \in DOMAIN call.r1_pkgs_hex :
         /\ x < y
         /\ call.r1_pkgs_hex[x].id = call.r1_pkgs_hex[y].id
         /\ call.r1_pkgs_hex[x].payload # call.r1_pkgs_hex[y].payload
    /\ \E x, y \in DOMAIN call.r1_pkgs_hex :
         x < y /\ call.r1_pkgs_hex[x].id > call.r1_pkgs_hex[y].id

\* ------------------------------------------------------------------ C31
\* what a call of identity A returned and stored, against A's own records
\* before the call (db) and after it (db2)
OwnOutcome(A, db, db2, r) ==
    /\ (r.op = "dkg_round1" /\ r.status = "Ok") =>
          IsSome(db2["r1"][A]) /\ Get(db2["r1"][A]).id = A /\ Get(r.val).of = A
    /\ r.op = "dkg_round2" =>
          /\ r.status = "MissingData" <=> ~IsSome(db["r1"][A])
          /\ r.status = "Ok" =>
                /\ db2["r2"][A] = db["r1"][A]
                /\ \A j \in DOMAIN Get(r.val) :
                     /\ Get(r.val)[j].from = A
                     /\ Get(r.val)[j].e = Get(db["r1"][A]).e
    /\ r.op = "dkg_round3" =>
          /\ r.status = "MissingData" <=> ~IsSome(db["r2"][A])
          /\ r.status = "Ok" =>
                /\ IsSome(db2["keypkg"][A]) /\ IsSome(db2["pubkeypkg"][A])
                /\ Get(db2["keypkg"][A]).id = A
                /\ Get(db2["keypkg"][A]).vk.g[A] = Get(db["r2"][A]).e
    /\ r.op = "init" =>
          Get(r.val).ready <=> (IsSome(db["keypkg"][A]) /\ IsSome(db["pubkeypkg"][A]))
    /\ r.op = "sign_round1" =>
          /\ r.status = "MissingData" <=> ~IsSome(db["keypkg"][A])
          /\ r.status = "Ok" =>
                /\ IsSome(db2["nonces"][A])
                /\ Get(db2["nonces"][A]).of = A
                /\ Get(r.val).of = A
    /\ r.op = "sign_round2" =>
          /\ r.status = "MissingData" <=>
                (~IsSome(db["keypkg"][A]) \/ ~IsSome(db["nonces"][A]))
          /\ r.status = "Ok" =>
                /\ Get(r.val).id = A
                /\ Get(r.val).nonces = Get(db["nonces"][A])
                /\ Get(r.val).key.g = Get(db["keypkg"][A]).vk.g

\* C31: calls of different identities do not interfere through the shared
\* store.  A call made with identity A leaves every record of every other
\* identity as it was, and what it returns and stores follows from A's own
\* records (r1_, r2_, keypkg_, pubkeypkg_, nonces_ under A's identifier);
\* whatever the interleaving, A's round-1 secret and nonces are those of A's
\* own latest dkg_round1 and sign_round1.
C31_IdentitiesDoNotInterfere ==
    [][ /\ \A A \in Ids : \A kind \in Kinds :
             ret'.id # A => DB'[kind][A] = DB[kind][A]
        /\ ret'.id \in Ids => OwnOutcome(ret'.id, DB, DB', ret')
        /\ \A A \in Ids :
             /\ IsSome(DB'["r1"][A]) <=> epoch'[A] >= 1
             /\ IsSome(DB'["r1"][A]) =>
                  Get(DB'["r1"][A]).id = A /\ Get(DB'["r1"][A]).e = epoch'[A]
             /\ IsSome(DB'["nonces"][A]) <=> nonceCtr'[A] >= 1
             /\ IsSome(DB'["nonces"][A]) =>
                  Get(DB'["nonces"][A]) = [of |-> A, k |-> nonceCtr'[A]]
      ]_vars

\* identity 2 has signed, with all five records of both identities stored
\* and identity 1 between its two signing rounds
C31_Witness ==
    /\ ret.op = "sign_round2" /\ ret.status = "Ok" /\ ret.id = 2
    /\ \A kind \in Kinds : \A i \in 1 .. 2 : IsSome(DB[kind][i])
    /\ uses[1] = 0

====
